---- MODULE Spec2Model ----
(***************************************************************************)
(* Hotel search with result cache and directory fallback                   *)
(* (src/src/services/hotelService.js, src/src/models/hotelSearchCache.js,  *)
(* src/src/models/Hotel.js).                                               *)
(*                                                                         *)
(* Strings are sequences of one-character strings, times are hours since   *)
(* the epoch (UTC), so a calendar day is a block of 24 hours.  An absent   *)
(* (undefined) string is NoStr, an absent number is NoNum.                 *)
(***************************************************************************)
EXTENDS Integers, Sequences, FiniteSets, TLC

\* ------------------------------------------------------------------ bounds

\* Number of clock ticks (hours) the model lets pass.
MaxTicks == 2
\* Number of top-level service calls the model starts.
MaxCalls == 3
\* Number of verifyRecommendedHotels calls the model starts.
MaxBatches == 1
\* Longest result list the name match is evaluated on.
MaxMatchLen == 3
\* Longest result list the alternatives are evaluated on.
MaxAltLen == 6
\* Number of directory records that share city, country, rating and scores.
MaxTwins == 6

\* ------------------------------------------------------- JavaScript values

NoStr == <<"undefined">>
NoNum == -1

\* String.prototype.toLowerCase
toLowerCase(s) ==
    LET Lower(c) ==
            CASE c = "P" -> "p"
              [] c = "A" -> "a"
              [] c = "G" -> "g"
              [] c = "H" -> "h"
              [] OTHER -> c
    IN
        [i \in DOMAIN s |-> Lower(s[i])]

IsSpace(c) == c = " "

\* String.prototype.includes
includes(s, t) ==
    \E i \in 1..(Len(s) + 1) :
        /\ i + Len(t) - 1 <= Len(s)
        /\ SubSeq(s, i, i + Len(t) - 1) = t

\* s.replace(/\s+/g, '-'): every maximal run of whitespace becomes one dash.
RECURSIVE ReplaceSpaceRuns(_, _)
ReplaceSpaceRuns(s, inRun) ==
    IF s = <<>> THEN <<>>
    ELSE IF IsSpace(Head(s))
         THEN (IF inRun THEN <<>> ELSE <<"-">>) \o ReplaceSpaceRuns(Tail(s), TRUE)
         ELSE <<Head(s)>> \o ReplaceSpaceRuns(Tail(s), FALSE)

\* The schema option trim: true (String.prototype.trim as a setter).
RECURSIVE TrimLeft(_)
TrimLeft(s) ==
    IF s # <<>> /\ IsSpace(Head(s)) THEN TrimLeft(Tail(s)) ELSE s

RECURSIVE TrimRight(_)
TrimRight(s) ==
    IF s # <<>> /\ IsSpace(s[Len(s)]) THEN TrimRight(SubSeq(s, 1, Len(s) - 1)) ELSE s

Trim(s) == TrimRight(TrimLeft(s))

\* Array.prototype.join
RECURSIVE Join(_, _)
Join(parts, sep) ==
    IF parts = <<>> THEN <<>>
    ELSE IF Len(parts) = 1 THEN Head(parts)
    ELSE Head(parts) \o sep \o Join(Tail(parts), sep)

Digits == <<"0", "1", "2", "3", "4", "5", "6", "7", "8", "9">>

\* Template-literal rendering of a small non-negative integer.
NumStr(n) == IF n < 10 THEN <<Digits[n + 1]>> ELSE <<Digits[(n \div 10) + 1], Digits[(n % 10) + 1]>>

\* ------------------------------------------------------------------- dates

DayOf(t) == t \div 24

\* new Date(t).toISOString().split('T')[0]
IsoDay(t) ==
    LET DayNames == <<"1970-01-01", "1970-01-02", "1970-01-03", "1970-01-04",
                      "1970-01-05", "1970-01-06", "1970-01-07", "1970-01-08">>
    IN
        <<DayNames[DayOf(t) + 1]>>

\* today.setHours(0, 0, 0, 0)
StartOfDay(t) == DayOf(t) * 24

\* ------------------------------------------------------ search signature

NoFilters == [minRating |-> NoNum, maxPrice |-> NoNum, hotelChain |-> NoStr]

OrOne(n) == IF n = NoNum \/ n = 0 THEN 1 ELSE n

FilterParts(f) ==
    (IF f.minRating # NoNum /\ f.minRating # 0
        THEN << <<"m", "i", "n", "r">> \o NumStr(f.minRating) >> ELSE <<>>)
    \o (IF f.maxPrice # NoNum /\ f.maxPrice # 0
        THEN << <<"m", "a", "x", "p">> \o NumStr(f.maxPrice) >> ELSE <<>>)
    \o (IF f.hotelChain # NoStr /\ f.hotelChain # <<>>
        THEN << <<"c", "h", "a", "i", "n">> \o toLowerCase(f.hotelChain) >> ELSE <<>>)

generateSearchKey(p) ==
    Join(<< ReplaceSpaceRuns(toLowerCase(p.location), FALSE),
            IsoDay(p.checkIn),
            IsoDay(p.checkOut),
            <<"r">> \o NumStr(OrOne(p.rooms)),
            <<"g">> \o NumStr(OrOne(p.guests)) >>
         \o FilterParts(p.additionalFilters),
         <<"_">>)

\* ------------------------------------------------------ inventory (TSS API)

JsOrNum(a, b) == IF a # NoNum /\ a # 0 THEN a ELSE b
JsOrStr(a, b) == IF a # NoStr /\ a # <<>> THEN a ELSE b

\* An absent (undefined or null) list; every array, the empty one too, is truthy.
NoList == <<"undefined">>
JsOrList(a, b) == IF a # NoList THEN a ELSE b

\* hotels.map(hotel => ({ id: hotel.id || hotel.hotelId, ... }))
formatHotel(h) ==
    [ id          |-> JsOrStr(h.id, h.hotelId),
      name        |-> JsOrStr(h.name, h.hotelName),
      address     |-> h.address,
      city        |-> h.city,
      starRating  |-> JsOrNum(h.starRating, h.category),
      reviewScore |-> JsOrNum(h.reviewScore, h.rating),
      reviewCount |-> JsOrNum(h.reviewCount, h.numberOfReviews),
      price       |-> JsOrNum(h.priceTotal, h.totalPrice),
      amenities   |-> JsOrList(JsOrList(h.amenities, h.facilities), <<>>),
      images      |-> JsOrList(JsOrList(h.images, h.photos), <<>>) ]

formatHotelResults(hotels) == [i \in DOMAIN hotels |-> formatHotel(hotels[i])]

RawGP ==
    [ id |-> <<"1">>, hotelId |-> NoStr, name |-> <<"G", "P">>, hotelName |-> NoStr,
      address |-> NoStr, city |-> <<"P", "a">>, starRating |-> 4, category |-> NoNum,
      reviewScore |-> 8, rating |-> NoNum, reviewCount |-> 10, numberOfReviews |-> NoNum,
      priceTotal |-> 90, totalPrice |-> NoNum,
      amenities |-> <<"w">>, facilities |-> NoList, images |-> NoList, photos |-> NoList ]

RawTGP ==
    [ id |-> NoStr, hotelId |-> <<"2">>, name |-> NoStr, hotelName |-> <<"t", "G", "P">>,
      address |-> <<"r", "o">>, city |-> <<"p", "a", " ">>, starRating |-> NoNum, category |-> 3,
      reviewScore |-> NoNum, rating |-> 7, reviewCount |-> NoNum, numberOfReviews |-> 5,
      priceTotal |-> NoNum, totalPrice |-> 60,
      amenities |-> NoList, facilities |-> <<"p">>, images |-> NoList, photos |-> <<"u">> ]

RawH ==
    [ id |-> <<"1">>, hotelId |-> <<"9">>, name |-> <<"H">>, hotelName |-> <<"G", "P">>,
      address |-> NoStr, city |-> <<"p", "a">>, starRating |-> 5, category |-> 4,
      reviewScore |-> 9, rating |-> 8, reviewCount |-> 20, numberOfReviews |-> NoNum,
      priceTotal |-> NoNum, totalPrice |-> NoNum,
      amenities |-> <<>>, facilities |-> <<"p">>, images |-> <<"v">>, photos |-> <<"u">> ]

\* hotel.price?.total is written priceTotal.
\* What one POST /hotels/search can answer: a transport or HTTP error, a body
\* without a hotels list, or a body with a hotels list (totalResults optional).
ApiList(hs, total) == [kind |-> "list", hotels |-> hs, totalResults |-> total]

Responses ==
    { [kind |-> "error"], [kind |-> "nolist"],
      ApiList(<<>>, NoNum),
      ApiList(<<RawTGP, RawGP>>, 7),
      ApiList(<<RawH>>, NoNum) }

\* --------------------------------------------------- search-result cache

CacheTtlHours == 2

NoDoc == [none |-> TRUE]

\* The results.hotels sub-schema keeps the paths it declares; a cached hotel
\* is a sub-document whose id is its own ObjectId, not the inventory id.
CacheHotel(f) ==
    [ id          |-> <<"oid">>,
      name        |-> f.name,
      address     |-> f.address,
      city        |-> f.city,
      starRating  |-> f.starRating,
      reviewScore |-> f.reviewScore,
      reviewCount |-> f.reviewCount,
      price       |-> f.price,
      amenities   |-> f.amenities,
      images      |-> f.images ]

CacheHotels(hotels) == [i \in DOMAIN hotels |-> CacheHotel(hotels[i])]

\* searchParams as stored: location has trim: true, rooms and guests are numbers.
CastSearchParams(p) ==
    [ location |-> Trim(p.location),
      checkIn  |-> p.checkIn,
      checkOut |-> p.checkOut,
      rooms    |-> p.rooms,
      guests   |-> p.guests ]

\* Faulty variant: the expiry comparison turned around ($lt for $gt).
findValidCache_ExpiryReversed(c, params, t) ==
    { d \in c : /\ d.searchKey = generateSearchKey(params)
                /\ d.status = "active"
                /\ d.isExpired = FALSE
                /\ d.expiresAt < t }

\* Faulty variant: the expiry condition left out of the filter.
findValidCache_NoExpiry(c, params, t) ==
    { d \in c : /\ d.searchKey = generateSearchKey(params)
                /\ d.status = "active"
                /\ d.isExpired = FALSE }

\* Faulty variant: an entry still counts at the instant it expires ($gte).
findValidCache_AtExpiry(c, params, t) ==
    { d \in c : /\ d.searchKey = generateSearchKey(params)
                /\ d.status = "active"
                /\ d.isExpired = FALSE
                /\ d.expiresAt >= t }

\* findOne({ searchKey, status: 'active', isExpired: false, expiresAt: { $gt: now } })
findValidCache(c, params, t) ==
    { d \in c : /\ d.searchKey = generateSearchKey(params)
                /\ d.status = "active"
                /\ d.isExpired = FALSE
                /\ d.expiresAt > t }

\* Faulty variant: a plain insert instead of an upsert by searchKey.
createOrUpdateCache_Insert(c, params, results, ttlHours, t) ==
    c \cup { [ searchKey    |-> generateSearchKey(params),
               searchParams |-> CastSearchParams(params),
               hotels       |-> CacheHotels(results.hotels),
               totalResults |-> results.totalResults,
               expiresAt    |-> t + ttlHours,
               status       |-> "active",
               isExpired    |-> FALSE,
               lastAccessed |-> t,
               hitCount     |-> 1 ] }

\* findOneAndUpdate({ searchKey }, {...}, { upsert: true, new: true })
createOrUpdateCache(c, params, results, ttlHours, t) ==
    LET key      == generateSearchKey(params)
        matching == { d \in c : d.searchKey = key }
        fields   == [ searchKey    |-> key,
                      searchParams |-> CastSearchParams(params),
                      hotels       |-> CacheHotels(results.hotels),
                      totalResults |-> results.totalResults,
                      expiresAt    |-> t + ttlHours,
                      status       |-> "active",
                      isExpired    |-> FALSE,
                      lastAccessed |-> t ]
    IN  IF matching = {}
        THEN c \cup { fields @@ [hitCount |-> 1] }
        ELSE LET d == CHOOSE d \in matching : TRUE
             IN  (c \ {d}) \cup { fields @@ [hitCount |-> d.hitCount + 1] }

\* pre('save'): auto-expire cache for past dates.
preSave(d, t) ==
    IF d.searchParams.checkOut < StartOfDay(t)
    THEN [d EXCEPT !.status = "expired", !.isExpired = TRUE]
    ELSE d

\* Faulty variant: the hit refreshes lastAccessed but does not count.
recordHit_NoCount(d, t) ==
    preSave([d EXCEPT !.lastAccessed = t], t)

\* recordHit(): the in-memory document after the increments and the save hook.
recordHit(d, t) ==
    preSave([d EXCEPT !.hitCount = d.hitCount + 1, !.lastAccessed = t], t)

\* save() of a loaded document: writes the paths modified since it was loaded
\* to the stored document.
saveCacheDoc(c, loaded, d) ==
    { IF e.searchKey = d.searchKey
      THEN [e EXCEPT !.hitCount = d.hitCount,
                     !.lastAccessed = d.lastAccessed,
                     !.status = IF d.status # loaded.status THEN d.status ELSE e.status,
                     !.isExpired = IF d.isExpired # loaded.isExpired THEN d.isExpired ELSE e.isExpired]
      ELSE e : e \in c }

\* Faulty variant: the expiresAt condition is missing from the $or.
cleanupExpired_FlagsOnly(c, t) ==
    { d \in c : ~(d.status = "expired" \/ d.isExpired = TRUE) }

\* deleteMany({ $or: [{ expiresAt: { $lt: now } }, { status: 'expired' },
\*                    { isExpired: true }] }): the documents that remain.
cleanupExpired(c, t) ==
    { d \in c : ~(d.expiresAt < t \/ d.status = "expired" \/ d.isExpired = TRUE) }

\* -------------------------------------------------------- hotel directory

FallbackLimit == 20

OidOf(hotelId) == <<"oid">> \o hotelId

\* Faulty variant: the write leaves status out, so an insert gets the default
\* and an update keeps what the record had.
HotelDoc_NoStatus(f) ==
    [ hotelId     |-> f.id,
      name        |-> IF f.name = NoStr THEN NoStr ELSE Trim(f.name),
      address     |-> IF f.address = NoStr THEN NoStr ELSE Trim(f.address),
      city        |-> IF f.city = NoStr THEN NoStr ELSE Trim(f.city),
      starRating  |-> f.starRating,
      reviewScore |-> f.reviewScore,
      reviewCount |-> f.reviewCount ]

\* The document updateOrCreateHotel writes (name and city have trim: true).
HotelDoc(f) ==
    [ hotelId     |-> f.id,
      name        |-> IF f.name = NoStr THEN NoStr ELSE Trim(f.name),
      address     |-> IF f.address = NoStr THEN NoStr ELSE Trim(f.address),
      city        |-> IF f.city = NoStr THEN NoStr ELSE Trim(f.city),
      starRating  |-> f.starRating,
      reviewScore |-> f.reviewScore,
      reviewCount |-> f.reviewCount,
      status      |-> "active" ]

\* searchMetadata.popularityScore: { default: 0 }
PopularityScoreDefault == 0

\* No tssData argument (the parameter's default, null).
NoTss == [none |-> TRUE]

\* tssData.tssHotelId of a record, NoStr where the record has none.
TssHotelIdOf(d) == IF "tssHotelId" \in DOMAIN d THEN d.tssHotelId ELSE NoStr

\* Hotel.findOneAndUpdate({ hotelId }, hotelData, { upsert: true, new: true }):
\* the paths of hotelData are set; the paths hotelData does not carry (the
\* popularity score, tssData when none is given) keep their value on an
\* update and get the schema default on an insert (findOneAndUpdate runs no
\* save middleware). A tssData argument is the inventory's hotel object,
\* which has no tssHotelId: setting it leaves the record without one.
updateOrCreateHotel(dir, f, tssData) ==
    LET matching == { d \in dir : d.hotelId = f.id }
        written  == DOMAIN HotelDoc(f) \cup (IF tssData = NoTss THEN {} ELSE {"tssHotelId"})
    IN  IF matching = {}
        THEN dir \cup { HotelDoc(f) @@ [popularityScore |-> PopularityScoreDefault] }
        ELSE LET d == CHOOSE d \in matching : TRUE
             IN  (dir \ {d}) \cup { HotelDoc(f) @@ [k \in DOMAIN d \ written |-> d[k]] }

\* hotel.toObject(), with virtuals: id is the document's ObjectId; address and
\* city live under location, so the object has none at the top level; the
\* amenities and images arrays of a record the service wrote are empty.
toObject(d) ==
    [ id |-> OidOf(d.hotelId), hotelId |-> d.hotelId, name |-> d.name, hotelName |-> NoStr,
      address |-> NoStr, city |-> NoStr, starRating |-> d.starRating, category |-> NoNum,
      reviewScore |-> d.reviewScore, rating |-> NoNum,
      reviewCount |-> d.reviewCount, numberOfReviews |-> NoNum,
      priceTotal |-> NoNum, totalPrice |-> NoNum,
      amenities |-> <<>>, facilities |-> NoList, images |-> <<>>, photos |-> NoList ]

\* formatHotelDetails(hotel): the pairs of formatHotelResults, without a price.
formatHotelDetails(hotel) ==
    [ id          |-> JsOrStr(hotel.id, hotel.hotelId),
      name        |-> JsOrStr(hotel.name, hotel.hotelName),
      address     |-> hotel.address,
      city        |-> hotel.city,
      starRating  |-> JsOrNum(hotel.starRating, hotel.category),
      reviewScore |-> JsOrNum(hotel.reviewScore, hotel.rating),
      reviewCount |-> JsOrNum(hotel.reviewCount, hotel.numberOfReviews),
      price       |-> NoNum,
      amenities   |-> JsOrList(JsOrList(hotel.amenities, hotel.facilities), <<>>),
      images      |-> JsOrList(JsOrList(hotel.images, hotel.photos), <<>>) ]

RECURSIVE SetToSeq(_)
SetToSeq(S) ==
    IF S = {} THEN <<>>
    ELSE LET x == CHOOSE x \in S : TRUE IN <<x>> \o SetToSeq(S \ {x})

Take(s, n) == IF Len(s) <= n THEN s ELSE SubSeq(s, 1, n)

\* Hotel.find({ $or: [city ~ /location/i, address ~ /location/i],
\*              status: 'active', availability: 'available' }).limit(20)
\* The schema declares no availability path: with strictQuery the condition is
\* dropped from the filter, without it no record can satisfy it.
searchHotelsFromDatabase(dir, location, strict) ==
    LET matches(field) == field # NoStr /\ includes(toLowerCase(field), toLowerCase(location))
        docs == { d \in dir : /\ matches(d.city) \/ matches(d.address)
                              /\ d.status = "active"
                              /\ strict }
        hs   == Take(SetToSeq(docs), FallbackLimit)
    IN  [i \in DOMAIN hs |-> formatHotelDetails(toObject(hs[i]))]

\* ------------------------------------------ Hotel.findAlternatives

NoRange == [min |-> NoNum, max |-> NoNum]

Abs(n) == IF n < 0 THEN -n ELSE n

Max(a, b) == IF a >= b THEN a ELSE b

Min(a, b) == IF a <= b THEN a ELSE b

\* criteria.limit || 5
FindAlternativesDefaultLimit == 5

\* A Hotel document as findAlternatives reads it.
HotelRecord(id, city, country, status, starRating, reviewScore, popularityScore, priceMin, priceMax) ==
    [ _id |-> id, city |-> city, country |-> country, status |-> status,
      starRating |-> starRating, reviewScore |-> reviewScore,
      popularityScore |-> popularityScore, priceMin |-> priceMin, priceMax |-> priceMax ]

\* Faulty variant: the star-rating condition is never added to the query.
findAlternativesQuery_NoRating(d, originalHotel, criteria) ==
    /\ d._id # originalHotel._id
    /\ d.city = originalHotel.city
    /\ d.country = originalHotel.country
    /\ d.status = "active"
    /\ criteria.priceRange # NoRange
          => /\ d.priceMin # NoNum /\ d.priceMin >= criteria.priceRange.min
             /\ d.priceMax # NoNum /\ d.priceMax <= criteria.priceRange.max

\* The query findAlternatives builds, as a condition on a document d.
findAlternativesQuery(d, originalHotel, criteria) ==
    /\ d._id # originalHotel._id
    /\ d.city = originalHotel.city
    /\ d.country = originalHotel.country
    /\ d.status = "active"
    /\ (originalHotel.starRating # NoNum /\ originalHotel.starRating # 0)
          => /\ d.starRating # NoNum
             /\ d.starRating >= Max(1, originalHotel.starRating - 1)
             /\ d.starRating <= Min(5, originalHotel.starRating + 1)
    /\ criteria.priceRange # NoRange
          => /\ d.priceMin # NoNum /\ d.priceMin >= criteria.priceRange.min
             /\ d.priceMax # NoNum /\ d.priceMax <= criteria.priceRange.max

\* sort({ starRating: -1, reviewScore: -1, popularityScore: -1 }): a sorts
\* strictly before b (a missing value sorts as the lowest).
SortsBefore(a, b) ==
    \/ a.starRating > b.starRating
    \/ a.starRating = b.starRating /\ a.reviewScore > b.reviewScore
    \/ /\ a.starRating = b.starRating /\ a.reviewScore = b.reviewScore
       /\ a.popularityScore > b.popularityScore

\* find(query).sort(...).limit(criteria.limit || 5): the sets of documents the
\* call can return; documents with equal sort keys come in an order the
\* database chooses, so which of them fall under the limit is its choice.
findAlternatives(dir, originalHotel, criteria) ==
    LET matching == { d \in dir : findAlternativesQuery(d, originalHotel, criteria) }
        limit    == JsOrNum(criteria.limit, FindAlternativesDefaultLimit)
    IN  { S \in SUBSET matching :
            /\ Cardinality(S) = Min(limit, Cardinality(matching))
            /\ \A s \in S, d \in matching \ S : ~SortsBefore(d, s) }

\* ------------------------------------------ calculatePopularityScore

\* What calculatePopularityScore reads of a Hotel document: the verification
\* history as the number of its entries and of those with verified true.
Rated(starRating, reviewScore, reviewCount, verified, history, isFeatured) ==
    [ starRating |-> starRating, reviewScore |-> reviewScore, reviewCount |-> reviewCount,
      verified |-> verified, history |-> history, isFeatured |-> isFeatured ]

\* The score is a sum of fractions over 50 (reviewCount / 1000 * 20) and over
\* the length of the history (successRate * 15): PopularityDen is their common
\* denominator and PopularitySum the exact sum times it.
PopularityDen(h) == 50 * Max(h.history, 1)

PopularitySum(h) ==
    LET D == PopularityDen(h)
    IN  (IF h.starRating # NoNum /\ h.starRating # 0 THEN D * 5 * h.starRating ELSE 0)
      + (IF h.reviewScore # NoNum /\ h.reviewScore # 0 THEN D * 3 * h.reviewScore ELSE 0)
      + (IF h.reviewCount # NoNum /\ h.reviewCount # 0
         THEN Min(h.reviewCount, 1000) * Max(h.history, 1) ELSE 0)
      + (IF h.history > 0 THEN 15 * 50 * h.verified ELSE 0)
      + (IF h.isFeatured THEN 10 * D ELSE 0)

\* Math.round: the nearest integer, halves upwards, of num / den.
RoundHalfUp(num, den) == (2 * num + den) \div (2 * den)

\* The documents, among those with whole-number fields evaluated here, whose
\* exact sum ends in .5 while the sum of the doubles falls just below it:
\* (1 / 5) * 25 + (590 / 1000) * 20 + (49 / 50) * 15 is 31.499999999999996.
SumsBelowHalf == { Rated(1, 0, 590, 49, 50, FALSE) }

\* Math.round(Math.min(score, 100)) of the double-precision sum.
calculatePopularityScore(h) ==
    LET D == PopularityDen(h)
        r == RoundHalfUp(Min(PopularitySum(h), 100 * D), D)
    IN  IF h \in SumsBelowHalf THEN r - 1 ELSE r

\* ------------------------------------------------- name match, alternatives

\* Array.prototype.find as an index, given the callback's value per element:
\* the first i with tests[i], 0 if none.
FindIndex(tests) ==
    IF \E i \in DOMAIN tests : tests[i]
    THEN CHOOSE i \in DOMAIN tests : tests[i] /\ \A j \in 1..(i - 1) : ~tests[j]
    ELSE 0

\* Confidence scores in tenths: 1.0 and 0.8.
ConfidenceExact == 10
ConfidencePartial == 8

NotFound == [found |-> FALSE, confidence |-> 0]

Found(hotel, confidence) == [found |-> TRUE, hotel |-> hotel, confidence |-> confidence]

\* Faulty variant: the partial match is looked for before the exact one.
MatchByName_PartialFirst(hotels, hotelName) ==
    LET q          == toLowerCase(hotelName)
        exact(h)   == toLowerCase(h.name) = q
        partial(h) == includes(toLowerCase(h.name), q) \/ includes(q, toLowerCase(h.name))
        ie         == FindIndex([i \in DOMAIN hotels |-> exact(hotels[i])])
        ip         == FindIndex([i \in DOMAIN hotels |-> partial(hotels[i])])
    IN  IF ip # 0 /\ ~exact(hotels[ip]) THEN Found(hotels[ip], ConfidencePartial)
        ELSE IF ie # 0 THEN Found(hotels[ie], ConfidenceExact)
        ELSE NotFound

\* searchHotelByName once the search has returned: the exact match, else the
\* partial match, else not found.
MatchByName(hotels, hotelName) ==
    LET q          == toLowerCase(hotelName)
        exact(h)   == toLowerCase(h.name) = q
        partial(h) == includes(toLowerCase(h.name), q) \/ includes(q, toLowerCase(h.name))
        ie         == FindIndex([i \in DOMAIN hotels |-> exact(hotels[i])])
        ip         == FindIndex([i \in DOMAIN hotels |-> partial(hotels[i])])
    IN  IF ie # 0 THEN Found(hotels[ie], ConfidenceExact)
        ELSE IF ip # 0 THEN Found(hotels[ip], ConfidencePartial)
        ELSE NotFound

\* The callbacks of find and filter call toLowerCase on both names: with an
\* undefined name the first callback throws a TypeError (no callback runs on
\* an empty list).
RECURSIVE MatchThrows(_, _)
MatchThrows(hotels, hotelName) ==
    IF hotels = <<>> THEN FALSE
    ELSE IF Head(hotels).name = NoStr \/ hotelName = NoStr THEN TRUE
    ELSE IF toLowerCase(Head(hotels).name) = toLowerCase(hotelName) THEN FALSE
    ELSE MatchThrows(Tail(hotels), hotelName)

FilterThrows(hotels, hotelName) ==
    hotels # <<>> /\ (hotelName = NoStr \/ \E i \in DOMAIN hotels : hotels[i].name = NoStr)

\* The pairs <<stars, review score>> of whole numbers (0..5, 0..10) on which
\* the double-precision value of stars * 0.7 + review * 0.3 is one unit in the
\* last place below the double nearest to the exact sum; on every other pair
\* it is that double.
RoundsDown ==
    { <<0, 3>>, <<0, 6>>, <<0, 9>>, <<1, 2>>, <<1, 3>>, <<1, 8>>, <<1, 9>>,
      <<2, 4>>, <<2, 6>>, <<3, 0>>, <<3, 1>>, <<3, 2>>, <<3, 3>>, <<3, 5>>,
      <<3, 6>>, <<3, 7>>, <<3, 9>>, <<4, 1>>, <<4, 3>>, <<4, 8>>, <<5, 9>> }

\* The exact value of 0.7 * stars + 0.3 * review, in tenths.
ExactScore(h) == 7 * JsOrNum(h.starRating, 0) + 3 * JsOrNum(h.reviewScore, 0)

\* (a.starRating || 0) * 0.7 + (a.reviewScore || 0) * 0.3 as the doubles
\* compare: twice the tenths, less one where the sum rounds down.
AltScore(h) ==
    2 * ExactScore(h)
      - (IF <<JsOrNum(h.starRating, 0), JsOrNum(h.reviewScore, 0)>> \in RoundsDown THEN 1 ELSE 0)

\* Array.prototype.sort with (a, b) => bScore - aScore: a stable insertion
\* into descending order.
RECURSIVE InsertByScore(_, _)
InsertByScore(sorted, h) ==
    IF sorted = <<>> THEN <<h>>
    ELSE IF AltScore(Head(sorted)) >= AltScore(h)
         THEN <<Head(sorted)>> \o InsertByScore(Tail(sorted), h)
         ELSE <<h>> \o sorted

RECURSIVE SortByScore(_)
SortByScore(hotels) ==
    IF hotels = <<>> THEN <<>>
    ELSE InsertByScore(SortByScore(SubSeq(hotels, 1, Len(hotels) - 1)), hotels[Len(hotels)])

\* Faulty variant: ratingRange is 1 instead of 0.5.
Alternatives_OneStar(hotels, originalHotelName, priceRange, starRating, limit) ==
    LET q        == toLowerCase(originalHotelName)
        other(h) == toLowerCase(h.name) # q
        star(h)  == IF starRating # NoNum /\ starRating # 0
                    THEN h.starRating # NoNum /\ Abs(h.starRating - starRating) <= 1
                    ELSE TRUE
        price(h) == IF priceRange # NoRange
                    THEN JsOrNum(h.price, 0) >= priceRange.min /\ JsOrNum(h.price, 0) <= priceRange.max
                    ELSE TRUE
        keep(h)  == other(h) /\ star(h) /\ price(h)
    IN  Take(SortByScore(SelectSeq(hotels, keep)), limit)

\* getAlternativeHotels once the search has returned.  ratingRange is 0.5,
\* so on whole stars the difference 2 * |a - b| must be at most 1.
Alternatives(hotels, originalHotelName, priceRange, starRating, limit) ==
    LET q        == toLowerCase(originalHotelName)
        other(h) == toLowerCase(h.name) # q
        star(h)  == IF starRating # NoNum /\ starRating # 0
                    THEN h.starRating # NoNum /\ 2 * Abs(h.starRating - starRating) <= 1
                    ELSE TRUE
        price(h) == IF priceRange # NoRange
                    THEN JsOrNum(h.price, 0) >= priceRange.min /\ JsOrNum(h.price, 0) <= priceRange.max
                    ELSE TRUE
        keep(h)  == other(h) /\ star(h) /\ price(h)
    IN  Take(SortByScore(SelectSeq(hotels, keep)), limit)

VerifyAlternativesLimit == 3

\* getAlternativeHotels({ ..., limit = 5 })
AlternativesDefaultLimit == 5

LimitOrDefault(limit) == IF limit = NoNum THEN AlternativesDefaultLimit ELSE limit

\* ------------------------------------------------------------------ state

Procs == {"p1", "p2"}

VARIABLES
    now,          \* the clock, in hours
    cache,        \* the HotelSearchCache collection: a set of documents
    directory,    \* the Hotel collection: a set of documents
    strictQuery,  \* whether queries drop conditions on undeclared paths
    calls,        \* top-level calls started so far
    proc,         \* per caller: the frame of its searchHotels call
    prev,         \* history: the last top-level searchHotels call that returned
    lastStore,    \* history: per signature, the last createOrUpdateCache
    batch,        \* per caller: the frame of its verifyRecommendedHotels call
    fn,           \* the last evaluation of a pure function: arguments and value
    lookup,       \* per caller: the frame of its getHotelById call
    request       \* per caller: the frame of its getHotelsByIds request

vars == <<now, cache, directory, strictQuery, calls, proc, prev, lastStore, batch, fn,
         lookup, request>>

service == <<now, cache, directory, strictQuery, calls, proc, prev, lastStore>>

NoResult == [none |-> TRUE]

Ok(hotels, total, source) ==
    [ok |-> TRUE, hotels |-> hotels, total |-> total, source |-> source]

Failed(message) == [ok |-> FALSE, error |-> message]

InventoryUnavailable == "Failed to search hotels via TSS API"

Req(location, checkIn, checkOut, rooms, guests) ==
    [location |-> location, checkIn |-> checkIn, checkOut |-> checkOut,
     rooms |-> rooms, guests |-> guests]

\* The requests callers make: two that share a signature, and one for another
\* place whose stay is already over (rooms left to its default).
Requests ==
    { Req(<<"p", "a">>, 48, 72, 1, 1),
      Req(<<"P", "A">>, 50, 80, 1, 1),
      Req(<<"r", "o", " ">>, 24, 30, NoNum, 2) }

\* { location, checkIn, checkOut, rooms = 1, guests = 1 }
WithDefaults(r) ==
    [r EXCEPT !.rooms  = IF r.rooms = NoNum THEN 1 ELSE r.rooms,
              !.guests = IF r.guests = NoNum THEN 1 ELSE r.guests]

\* The object searchHotels hands to the cache: it carries no additionalFilters.
CacheParams(r) == r @@ [additionalFilters |-> NoFilters]

IdleFrame ==
    [ pc           |-> "idle",
      caller       |-> "none",
      req          |-> Req(<<>>, 0, 0, 1, 1),
      found        |-> NoDoc,
      fmt          |-> <<>>,
      total        |-> 0,
      todo         |-> {},
      result       |-> NoResult,
      \* history of this call
      apiCalls     |-> 0,
      apiOk        |-> FALSE,
      faults       |-> {},
      upsertFailed |-> {},
      emptyAtCall  |-> FALSE,
      storedAt     |-> 0 ]

NoPrev == [none |-> TRUE]

\* The directory as earlier runs left it: one active record and one that was
\* set inactive, each saved with its popularity score (15 + 18 and
\* 20 + 24 + 0.2); the active one carries the inventory's id for it.
InitialDirectory ==
      { [ hotelId |-> <<"3">>, name |-> <<"t", "g", "p">>, address |-> <<"x">>,
          city |-> <<"P", "a">>, starRating |-> 3, reviewScore |-> 6,
          reviewCount |-> 0, status |-> "active", popularityScore |-> 33,
          tssHotelId |-> <<"7">> ],
        [ hotelId |-> <<"1">>, name |-> <<"G", "P">>, address |-> <<"x">>,
          city |-> <<"p", "a">>, starRating |-> 4, reviewScore |-> 8,
          reviewCount |-> 10, status |-> "inactive", popularityScore |-> 44 ] }

Rec(name, starRating) == [name |-> name, starRating |-> starRating]

IdleBatch ==
    [ pc           |-> "idle",
      hotels       |-> <<>>,
      ctx          |-> [location |-> <<>>, checkIn |-> 0, checkOut |-> 0],
      i            |-> 0,
      verified     |-> <<>>,
      alternatives |-> <<>>,
      unavailable  |-> <<>>,
      \* history of this call
      searches     |-> 0,
      threw        |-> {},
      emptyAtCall  |-> FALSE,
      startedAt    |-> 0,
      apiCalls     |-> 0,
      apiFailed    |-> FALSE,
      faulted      |-> FALSE ]

NoFn == [op |-> "none"]

\* getHotelById returned null.
Null == [null |-> TRUE]

Value(hotel) == [ok |-> TRUE, hotel |-> hotel]

IdleRequest ==
    [ pc        |-> "idle",
      ids       |-> NoList,
      i         |-> 0,
      hotels    |-> <<>>,
      response  |-> NoResult,
      \* history of this request
      dirAtCall |-> {},
      looked    |-> {},
      asked     |-> {},
      threw     |-> {} ]

IdleLookup ==
    [ pc        |-> "idle",
      hotelId   |-> NoStr,
      raw       |-> NoTss,
      formatted |-> NoDoc,
      result    |-> NoResult,
      \* history of this call
      dirAtCall |-> {},
      dbFailed  |-> FALSE,
      answer    |-> [kind |-> "none"],
      apiCalls  |-> 0 ]

Init ==
    /\ batch = [p \in Procs |-> IdleBatch]
    /\ fn = NoFn
    /\ lookup = [p \in Procs |-> IdleLookup]
    /\ request = [p \in Procs |-> IdleRequest]
    /\ now = 48
    /\ cache = {}
    /\ directory = InitialDirectory
    /\ strictQuery \in BOOLEAN
    /\ calls = 0
    /\ proc = [p \in Procs |-> IdleFrame]
    /\ prev = NoPrev
    /\ lastStore = {}

\* ------------------------------------------------- searchHotels, step by step

\* Faulty variant: the exception leaves searchHotels as it is.
OnSearchError_Escape(f, op) ==
    [f EXCEPT !.pc = "ret", !.faults = f.faults \cup {op}, !.result = Failed(op)]

\* Faulty variant: a failed cache lookup or hit is treated as a miss.
OnSearchError_AsMiss(f, op) ==
    IF op \in {"find", "hit"}
    THEN [f EXCEPT !.pc = "api", !.faults = f.faults \cup {op}]
    ELSE [f EXCEPT !.pc = "fallback", !.faults = f.faults \cup {op}]

\* Entry of the catch block: any exception of the try body lands here.
OnSearchError(f, op) ==
    [f EXCEPT !.pc = "fallback", !.faults = f.faults \cup {op}]

\* A call of searchHotels begins (the frame is fresh).
BeginSearch(p, r, caller) ==
    proc' = [proc EXCEPT ![p] =
        [IdleFrame EXCEPT !.pc = "find", !.caller = caller, !.req = WithDefaults(r),
                          !.emptyAtCall = (cache = {})]]

Call(p) ==
    /\ proc[p].pc = "idle"
    /\ calls < MaxCalls
    /\ \E r \in Requests : BeginSearch(p, r, "top")
    /\ calls' = calls + 1
    /\ UNCHANGED <<now, cache, directory, strictQuery, prev, lastStore, batch, fn, lookup, request>>

\* await HotelSearchCache.findValidCache({...})
FindValidCache(p) ==
    LET f    == proc[p]
        hits == findValidCache(cache, CacheParams(f.req), now)
    IN  /\ f.pc = "find"
        /\ \/ \E d \in hits :
                proc' = [proc EXCEPT ![p] = [f EXCEPT !.pc = "hit", !.found = d]]
           \/ /\ hits = {}
              /\ proc' = [proc EXCEPT ![p] = [f EXCEPT !.pc = "api"]]
           \/ proc' = [proc EXCEPT ![p] = OnSearchError(f, "find")]
        /\ UNCHANGED <<now, cache, directory, strictQuery, calls, prev, lastStore, batch, fn, lookup, request>>

CacheHitResult(d) == Ok(d.hotels, d.totalResults, "cache")

\* await cachedResult.recordHit(); return {..., source: 'cache'}
RecordHit(p) ==
    LET f == proc[p]
    IN  /\ f.pc = "hit"
        /\ \/ /\ \E e \in cache : e.searchKey = f.found.searchKey
              /\ cache' = saveCacheDoc(cache, f.found, recordHit(f.found, now))
              /\ proc' = [proc EXCEPT ![p] =
                            [f EXCEPT !.pc = "ret", !.result = CacheHitResult(f.found)]]
           \/ /\ cache' = cache
              /\ proc' = [proc EXCEPT ![p] = OnSearchError(f, "hit")]
        /\ UNCHANGED <<now, directory, strictQuery, calls, prev, lastStore, batch, fn, lookup, request>>

\* response.data.totalResults || formattedHotels.length
TotalOf(resp, formatted) == JsOrNum(resp.totalResults, Len(formatted))

\* Faulty variant: a response without a hotels list counts as a failure.
NoListResult_Failed == Failed(InventoryUnavailable)

\* return { hotels: [], total: 0, source: 'api' }
NoListResult == Ok(<<>>, 0, "api")

\* const response = await this.tssApi.post('/hotels/search', searchPayload)
TssSearch(p) ==
    LET f == proc[p]
        g == [f EXCEPT !.apiCalls = f.apiCalls + 1]
    IN  /\ f.pc = "api"
        /\ \E resp \in Responses :
             proc' = [proc EXCEPT ![p] =
                CASE resp.kind = "error"  -> OnSearchError(g, "api")
                  [] resp.kind = "nolist" ->
                        [g EXCEPT !.pc = "ret", !.result = NoListResult]
                  [] OTHER ->
                        LET formatted == formatHotelResults(resp.hotels)
                        IN  [g EXCEPT !.pc = "store", !.apiOk = TRUE,
                                      !.fmt = formatted,
                                      !.total = TotalOf(resp, formatted)]]
        /\ UNCHANGED <<now, cache, directory, strictQuery, calls, prev, lastStore, batch, fn, lookup, request>>

\* await HotelSearchCache.createOrUpdateCache({...}, {...}, 2)
StoreCache(p) ==
    LET f   == proc[p]
        key == generateSearchKey(CacheParams(f.req))
    IN  /\ f.pc = "store"
        /\ \/ /\ cache' = createOrUpdateCache(cache, CacheParams(f.req),
                              [hotels |-> f.fmt, totalResults |-> f.total],
                              CacheTtlHours, now)
              /\ lastStore' = { s \in lastStore : s.key # key }
                    \cup { [key |-> key, params |-> f.req, hotels |-> f.fmt,
                            total |-> f.total, time |-> now,
                            n |-> 1 + Cardinality({ s \in lastStore : s.key = key })] }
              /\ proc' = [proc EXCEPT ![p] =
                            [f EXCEPT !.pc = "upsert", !.todo = DOMAIN f.fmt,
                                      !.storedAt = now]]
           \/ /\ proc' = [proc EXCEPT ![p] = OnSearchError(f, "store")]
              /\ UNCHANGED <<cache, lastStore>>
        /\ UNCHANGED <<now, directory, strictQuery, calls, prev, batch, fn, lookup, request>>

\* Faulty variant: the error of one hotel's upsert is rethrown and rejects the call.
OnUpsertError_Rethrow(f, i) ==
    [f EXCEPT !.pc = "fallback", !.upsertFailed = f.upsertFailed \cup {i}]

\* The catch block of updateOrCreateHotel: the error is logged, the promise
\* of this hotel resolves.
OnUpsertError(f, i) ==
    [f EXCEPT !.todo = f.todo \ {i}, !.upsertFailed = f.upsertFailed \cup {i}]

\* One of the promises of updateOrCreateHotels: hotels.map(hotel =>
\* this.updateOrCreateHotel(hotel)), settled in any order.
UpsertHotel(p) ==
    LET f == proc[p]
    IN  /\ f.pc = "upsert"
        /\ \E i \in f.todo :
             \/ /\ directory' = updateOrCreateHotel(directory, f.fmt[i], NoTss)
                /\ proc' = [proc EXCEPT ![p] =
                      [f EXCEPT !.todo = f.todo \ {i}]]
             \/ /\ directory' = directory
                /\ proc' = [proc EXCEPT ![p] = OnUpsertError(f, i)]
        /\ UNCHANGED <<now, cache, strictQuery, calls, prev, lastStore, batch, fn, lookup, request>>

ApiResult(f) == Ok(f.fmt, f.total, "api")

\* await Promise.all(updatePromises) is over: return {..., source: 'api'}
ReturnApi(p) ==
    LET f == proc[p]
    IN  /\ f.pc = "upsert"
        /\ f.todo = {}
        /\ proc' = [proc EXCEPT ![p] = [f EXCEPT !.pc = "ret", !.result = ApiResult(f)]]
        /\ UNCHANGED <<now, cache, directory, strictQuery, calls, prev, lastStore, batch, fn, lookup, request>>

\* Faulty variant: the fallback is returned whether or not it found anything.
FallbackResult_AlwaysReturn(hotels) == Ok(hotels, Len(hotels), "fallback")

\* if (fallbackResults.hotels.length > 0) return {...fallbackResults,
\* source: 'fallback'}; throw new Error('Failed to search hotels via TSS API')
FallbackResult(hotels) ==
    IF Len(hotels) > 0
    THEN Ok(hotels, Len(hotels), "fallback")
    ELSE Failed(InventoryUnavailable)

\* The catch block: searchHotelsFromDatabase, whose own catch turns a failed
\* query into an empty list.
Fallback(p) ==
    LET f == proc[p]
    IN  /\ f.pc = "fallback"
        /\ \/ proc' = [proc EXCEPT ![p] =
                 [f EXCEPT !.pc = "ret",
                           !.result = FallbackResult(
                               searchHotelsFromDatabase(directory, f.req.location, strictQuery))]]
           \/ proc' = [proc EXCEPT ![p] =
                 [f EXCEPT !.pc = "ret", !.faults = f.faults \cup {"fallback"},
                           !.result = FallbackResult(<<>>)]]
        /\ UNCHANGED <<now, cache, directory, strictQuery, calls, prev, lastStore, batch, fn, lookup, request>>

\* The caller takes the outcome of a top-level call.
Return(p) ==
    LET f == proc[p]
    IN  /\ f.pc = "ret"
        /\ f.caller = "top"
        /\ prev' = [ req       |-> f.req,
                     stored    |-> (f.apiOk /\ f.result = ApiResult(f)),
                     storedAt  |-> f.storedAt,
                     fromEmpty |-> f.emptyAtCall ]
        /\ proc' = [proc EXCEPT ![p] = IdleFrame]
        /\ UNCHANGED <<now, cache, directory, strictQuery, calls, lastStore, batch, fn, lookup, request>>

\* An hour passes.  A call lasts seconds (the inventory client times out
\* after 30 s), so at this granularity the clock moves between calls.
Tick ==
    /\ now < 48 + MaxTicks
    /\ \A p \in Procs : proc[p].pc = "idle"
    /\ now' = now + 1
    /\ UNCHANGED <<cache, directory, strictQuery, calls, proc, prev, lastStore, batch, fn, lookup, request>>

\* ------------------------------------------- verifyRecommendedHotels

\* results = { verified: [], alternatives: [], unavailable: [] }
VerifyBegin(p) ==
    LET \* The hotel lists handed to verifyRecommendedHotels: names that match a
        \* result exactly, partially or not at all, a hotel without a name, with and
        \* without a star rating.
        BatchInputs ==
            { <<>>,
              <<Rec(<<"g", "p">>, 4)>>,
              <<Rec(<<"x">>, 3), Rec(<<"G", "P">>, NoNum)>>,
              <<Rec(NoStr, 5), Rec(<<"h">>, 5)>>,
              <<Rec(<<"x">>, NoNum), Rec(<<"x">>, 1), Rec(<<"g">>, 4)>> }
        BatchContexts ==
            { [location |-> <<"p", "a">>, checkIn |-> 48, checkOut |-> 72],
              [location |-> <<"r", "o">>, checkIn |-> 48, checkOut |-> 72],
              [location |-> <<"p", "a">>, checkIn |-> 24, checkOut |-> 30] }
    IN
        /\ batch[p].pc = "idle"
        /\ proc[p].pc = "idle"
        /\ calls < MaxBatches
        /\ \E hs \in BatchInputs, ctx \in BatchContexts :
              batch' = [batch EXCEPT ![p] =
                          [IdleBatch EXCEPT !.pc = "loop", !.hotels = hs, !.ctx = ctx, !.i = 1,
                                             !.emptyAtCall = (cache = {}),
                                             !.startedAt = now]]
        /\ calls' = calls + 1
        /\ UNCHANGED <<now, cache, directory, strictQuery, proc, prev, lastStore, fn, lookup, request>>

\* for (const recommendedHotel of hotels): the next hotel's searchHotelByName
\* calls searchHotels({ location, checkIn, checkOut }).
VerifyNext(p) ==
    LET b == batch[p]
    IN  /\ b.pc = "loop"
        /\ b.i <= Len(b.hotels)
        /\ BeginSearch(p, Req(b.ctx.location, b.ctx.checkIn, b.ctx.checkOut, NoNum, NoNum), "name")
        /\ batch' = [batch EXCEPT ![p] = [b EXCEPT !.pc = "name", !.searches = b.searches + 1]]
        /\ UNCHANGED <<now, cache, directory, strictQuery, calls, prev, lastStore, fn, lookup, request>>

VerifiedOutcome(original, match) ==
    [ original |-> original, verified |-> match.hotel, status |-> "verified",
      confidence |-> match.confidence ]

AlternativesOutcome(original, alternatives) ==
    [ original |-> original, alternatives |-> alternatives, status |-> "alternatives_found" ]

UnavailableOutcome(original) ==
    [ original |-> original, status |-> "unavailable",
      reason |-> <<"No suitable alternatives found">> ]

\* The catch block of the loop body: the error is recorded with the hotel.
ErrorOutcome(original, message) ==
    [ original |-> original, status |-> "error", reason |-> message ]

\* Faulty variant: the loop's catch block rethrows, which ends the batch.
OnVerifyError_Rethrow(b, message) ==
    [b EXCEPT !.pc = "threw", !.threw = b.threw \cup {b.i}]

\* catch (error) { results.unavailable.push({...}) } and on to the next hotel.
OnVerifyError(b, message) ==
    [b EXCEPT !.pc = "loop", !.i = b.i + 1, !.threw = b.threw \cup {b.i},
              !.unavailable = Append(b.unavailable, ErrorOutcome(b.hotels[b.i], message))]

\* History: the batch frame takes note of what the settled search did.
Settled(b, f) ==
    [b EXCEPT !.apiCalls  = b.apiCalls + f.apiCalls,
              !.apiFailed = b.apiFailed \/ (f.apiCalls > 0 /\ ~f.apiOk),
              !.faulted   = b.faulted \/ f.faults # {}]

TypeErrorMessage == <<"Cannot read properties of undefined (reading 'toLowerCase')">>

\* searchHotelByName after its searchHotels call has settled.
VerifyName(p) ==
    LET f == proc[p]
        b == Settled(batch[p], f)
        h == b.hotels[b.i]
        m == MatchByName(f.result.hotels, h.name)
    IN  /\ b.pc = "name"
        /\ f.pc = "ret"
        /\ \/ /\ ~f.result.ok
              /\ batch' = [batch EXCEPT ![p] =
                    OnVerifyError(b, <<"Failed to search hotel by name: ", f.result.error>>)]
              /\ proc' = [proc EXCEPT ![p] = IdleFrame]
           \/ /\ f.result.ok
              /\ MatchThrows(f.result.hotels, h.name)
              /\ batch' = [batch EXCEPT ![p] =
                    OnVerifyError(b, <<"Failed to search hotel by name: ">> \o TypeErrorMessage)]
              /\ proc' = [proc EXCEPT ![p] = IdleFrame]
           \/ /\ f.result.ok
              /\ ~MatchThrows(f.result.hotels, h.name)
              /\ m.found
              /\ batch' = [batch EXCEPT ![p] =
                    [b EXCEPT !.pc = "loop", !.i = b.i + 1,
                              !.verified = Append(b.verified, VerifiedOutcome(h, m))]]
              /\ proc' = [proc EXCEPT ![p] = IdleFrame]
           \/ /\ f.result.ok
              /\ ~MatchThrows(f.result.hotels, h.name)
              /\ ~m.found
              /\ BeginSearch(p, Req(b.ctx.location, b.ctx.checkIn, b.ctx.checkOut, NoNum, NoNum), "alt")
              /\ batch' = [batch EXCEPT ![p] = [b EXCEPT !.pc = "alt", !.searches = b.searches + 1]]
        /\ UNCHANGED <<now, cache, directory, strictQuery, calls, prev, lastStore, fn, lookup, request>>

\* getAlternativeHotels after its searchHotels call has settled.
VerifyAlternatives(p) ==
    LET f    == proc[p]
        b    == Settled(batch[p], f)
        h    == b.hotels[b.i]
        alts == Alternatives(f.result.hotels, h.name, NoRange, h.starRating, VerifyAlternativesLimit)
    IN  /\ b.pc = "alt"
        /\ f.pc = "ret"
        /\ \/ /\ ~f.result.ok
              /\ batch' = [batch EXCEPT ![p] =
                    OnVerifyError(b, <<"Failed to get alternative hotels: ", f.result.error>>)]
           \/ /\ f.result.ok
              /\ FilterThrows(f.result.hotels, h.name)
              /\ batch' = [batch EXCEPT ![p] =
                    OnVerifyError(b, <<"Failed to get alternative hotels: ">> \o TypeErrorMessage)]
           \/ /\ f.result.ok
              /\ ~FilterThrows(f.result.hotels, h.name)
              /\ batch' = [batch EXCEPT ![p] =
                    IF Len(alts) > 0
                    THEN [b EXCEPT !.pc = "loop", !.i = b.i + 1,
                            !.alternatives = Append(b.alternatives, AlternativesOutcome(h, alts))]
                    ELSE [b EXCEPT !.pc = "loop", !.i = b.i + 1,
                            !.unavailable = Append(b.unavailable, UnavailableOutcome(h))]]
        /\ proc' = [proc EXCEPT ![p] = IdleFrame]
        /\ UNCHANGED <<now, cache, directory, strictQuery, calls, prev, lastStore, fn, lookup, request>>

\* return results
VerifyReturn(p) ==
    LET b == batch[p]
    IN  /\ b.pc = "loop"
        /\ b.i > Len(b.hotels)
        /\ batch' = [batch EXCEPT ![p] = [b EXCEPT !.pc = "done"]]
        /\ UNCHANGED <<now, cache, directory, strictQuery, calls, proc, prev, lastStore, fn, lookup, request>>

\* The caller takes the results.
VerifyEnd(p) ==
    /\ batch[p].pc = "done"
    /\ batch' = [batch EXCEPT ![p] = IdleBatch]
    /\ UNCHANGED <<now, cache, directory, strictQuery, calls, proc, prev, lastStore, fn, lookup, request>>

SearchStep(p) ==
    \/ FindValidCache(p)
    \/ RecordHit(p)
    \/ TssSearch(p)
    \/ StoreCache(p)
    \/ UpsertHotel(p)
    \/ ReturnApi(p)
    \/ Fallback(p)

Next ==
    \/ Call("p1")
    \/ SearchStep("p1")
    \/ Return("p1")
    \/ Tick

\* Sequential searchHotels calls of one caller, with the clock.
Spec == Init /\ [][Next]_vars

\* HotelSearchCache.cleanupExpired(), run as maintenance between calls.
CleanupExpired ==
    /\ \A p \in Procs : proc[p].pc = "idle"
    /\ cache' = cleanupExpired(cache, now)
    /\ UNCHANGED <<now, directory, strictQuery, calls, proc, prev, lastStore, batch, fn, lookup, request>>

NextCleanup ==
    \/ Next
    \/ CleanupExpired

\* An entry a search stored three hours before the model's clock starts: its
\* expiresAt has passed and nothing has touched its flags since.
OldRequest == Req(<<"l", "y">>, 24, 72, 1, 1)

InitCleanup ==
    LET OldCache ==
            createOrUpdateCache({}, CacheParams(OldRequest),
                                [hotels |-> formatHotelResults(<<RawH>>), totalResults |-> 1],
                                CacheTtlHours, 45)
    IN
        /\ batch = [p \in Procs |-> IdleBatch]
        /\ fn = NoFn
        /\ lookup = [p \in Procs |-> IdleLookup]
        /\ request = [p \in Procs |-> IdleRequest]
        /\ now = 48
        /\ cache = OldCache
        /\ directory = InitialDirectory
        /\ strictQuery \in BOOLEAN
        /\ calls = 0
        /\ proc = [p \in Procs |-> IdleFrame]
        /\ prev = NoPrev
        /\ lastStore = {}

\* Sequential searchHotels calls with the cleanup running in between, on a
\* cache that holds an old entry.
SpecCleanup == InitCleanup /\ [][NextCleanup]_vars

\* --------------------------------------------- concurrent searchHotels

\* findOneAndUpdate({ searchKey }, ..., { upsert: true }) on the server: the
\* query phase finds the entry of the key or none. With one caller the two
\* phases are the single step StoreCache; with two callers another write can
\* fall between them.
StoreQuery(p) ==
    LET f       == proc[p]
        key     == generateSearchKey(CacheParams(f.req))
        matched == { d \in cache : d.searchKey = key }
    IN  /\ f.pc = "store"
        /\ \/ /\ matched = {}
              /\ proc' = [proc EXCEPT ![p] = [f EXCEPT !.pc = "write", !.found = NoDoc]]
           \/ \E d \in matched :
                proc' = [proc EXCEPT ![p] = [f EXCEPT !.pc = "write", !.found = d]]
        /\ UNCHANGED <<now, cache, directory, strictQuery, calls, prev, lastStore, batch, fn,
                       lookup, request>>

\* The write phase. An upsert that found no entry inserts one; when another
\* caller has inserted the key meanwhile, the unique index on searchKey
\* rejects the insert with a duplicate-key error (E11000), which the server
\* either retries as an update or returns to the caller. The rejected
\* promise reaches the catch block of searchHotels.
StoreWrite(p) ==
    LET f   == proc[p]
        key == generateSearchKey(CacheParams(f.req))
        collision == f.found = NoDoc /\ \E d \in cache : d.searchKey = key
    IN  /\ f.pc = "write"
        /\ \/ /\ cache' = createOrUpdateCache(cache, CacheParams(f.req),
                              [hotels |-> f.fmt, totalResults |-> f.total],
                              CacheTtlHours, now)
              /\ lastStore' = { s \in lastStore : s.key # key }
                    \cup { [key |-> key, params |-> f.req, hotels |-> f.fmt,
                            total |-> f.total, time |-> now,
                            n |-> 1 + Cardinality({ s \in lastStore : s.key = key })] }
              /\ proc' = [proc EXCEPT ![p] =
                            [f EXCEPT !.pc = "upsert", !.todo = DOMAIN f.fmt,
                                      !.found = NoDoc, !.storedAt = now]]
           \/ /\ collision
              /\ proc' = [proc EXCEPT ![p] =
                            OnSearchError([f EXCEPT !.found = NoDoc], "duplicate")]
              /\ UNCHANGED <<cache, lastStore>>
        /\ UNCHANGED <<now, directory, strictQuery, calls, prev, batch, fn, lookup, request>>

NextConcurrent ==
    \/ \E p \in Procs : Call(p)
    \/ \E p \in Procs : FindValidCache(p)
    \/ \E p \in Procs : RecordHit(p)
    \/ \E p \in Procs : TssSearch(p)
    \/ \E p \in Procs : StoreQuery(p)
    \/ \E p \in Procs : StoreWrite(p)
    \/ \E p \in Procs : UpsertHotel(p)
    \/ \E p \in Procs : ReturnApi(p)
    \/ \E p \in Procs : Fallback(p)
    \/ \E p \in Procs : Return(p)

\* searchHotels calls of two callers, interleaved at every await.
SpecConcurrent == Init /\ [][NextConcurrent]_vars

\* ------------------------------------------------------------ getHotelById

RetrieveFailed == "Failed to retrieve hotel details"

\* What one GET /hotels/:id can answer: an HTTP error with a status, an error
\* without a response (timeout, connection), a body without a hotel, a body
\* with a hotel.
GetError(status) == [kind |-> "error", status |-> status]
GetHotel(h) == [kind |-> "hotel", hotel |-> h]

\* Hotel.findOne({ $or: [{ hotelId }, { 'tssData.tssHotelId': hotelId }],
\*                 status: 'active' }): the records the filter selects.
findOneActive(dir, hotelId) ==
    { d \in dir : /\ d.hotelId = hotelId \/ TssHotelIdOf(d) = hotelId
                  /\ d.status = "active" }

\* Faulty variant: the catch block returns null for every error.
OnGetError_Null(status) == Null

\* catch (error): null when error.response?.status === 404, otherwise a new
\* Error('Failed to retrieve hotel details'). status is NoNum for an error
\* without a response.
OnGetError(status) ==
    IF status = 404 THEN Null ELSE Failed(RetrieveFailed)

GetHotelById(p) ==
    LET \* The ids callers ask for: the hotelId and the inventory id of the active
        \* record, the hotelId of the inactive one, and two the directory lacks.
        HotelIds == { <<"3">>, <<"7">>, <<"1">>, <<"9">>, <<"2">> }
    IN
        /\ calls < MaxCalls
        /\ lookup[p].pc = "idle"
        /\ \E id \in HotelIds :
             lookup' = [lookup EXCEPT ![p] =
                           [IdleLookup EXCEPT !.pc = "findOne", !.hotelId = id,
                                              !.dirAtCall = directory]]
        /\ calls' = calls + 1
        /\ UNCHANGED <<now, cache, directory, strictQuery, proc, prev, lastStore, batch, fn,
                       request>>

\* let hotel = await Hotel.findOne(...); if (hotel) return
\* this.formatHotelDetails(hotel.toObject()). The query can fail.
FindOne(p) ==
    LET f == lookup[p]
        found == findOneActive(directory, f.hotelId)
    IN  /\ f.pc = "findOne"
        /\ \/ lookup' = [lookup EXCEPT ![p] =
                 [f EXCEPT !.pc = "return", !.dbFailed = TRUE,
                           !.result = OnGetError(NoNum)]]
           \/ /\ found # {}
              /\ \E d \in found :
                   lookup' = [lookup EXCEPT ![p] =
                      [f EXCEPT !.pc = "return",
                                !.result = Value(formatHotelDetails(toObject(d)))]]
           \/ /\ found = {}
              /\ lookup' = [lookup EXCEPT ![p] = [f EXCEPT !.pc = "get"]]
        /\ UNCHANGED <<now, cache, directory, strictQuery, calls, proc, prev, lastStore,
                       batch, fn, request>>

\* const response = await this.tssApi.get(`/hotels/${hotelId}`);
\* if (response.data && response.data.hotel) { ... } return null;
TssGet(p) ==
    LET GetResponses ==
            { GetError(404), GetError(500), GetError(NoNum), [kind |-> "nohotel"],
              GetHotel(RawH), GetHotel(RawTGP) }
    IN
        LET f == lookup[p]
        IN  /\ f.pc = "get"
            /\ \E r \in GetResponses :
                 LET g == [f EXCEPT !.answer = r, !.apiCalls = f.apiCalls + 1]
                 IN  lookup' = [lookup EXCEPT ![p] =
                       CASE r.kind = "error" ->
                              [g EXCEPT !.pc = "return", !.result = OnGetError(r.status)]
                         [] r.kind = "nohotel" ->
                              [g EXCEPT !.pc = "return", !.result = Null]
                         [] r.kind = "hotel" ->
                              [g EXCEPT !.pc = "save", !.raw = r.hotel,
                                        !.formatted = formatHotelDetails(r.hotel)]]
            /\ UNCHANGED <<now, cache, directory, strictQuery, calls, proc, prev, lastStore,
                           batch, fn, request>>

\* await this.updateOrCreateHotel(formattedHotel, response.data.hotel);
\* return formattedHotel. A failed write is caught inside updateOrCreateHotel.
SaveHotel(p) ==
    LET f == lookup[p]
    IN  /\ f.pc = "save"
        /\ \/ directory' = updateOrCreateHotel(directory, f.formatted, f.raw)
           \/ UNCHANGED directory
        /\ lookup' = [lookup EXCEPT ![p] =
              [f EXCEPT !.pc = "return", !.result = Value(f.formatted)]]
        /\ UNCHANGED <<now, cache, strictQuery, calls, proc, prev, lastStore, batch, fn,
                       request>>

GetReturn(p) ==
    /\ lookup[p].pc = "return"
    /\ lookup' = [lookup EXCEPT ![p] = IdleLookup]
    /\ UNCHANGED <<now, cache, directory, strictQuery, calls, proc, prev, lastStore,
                   batch, fn, request>>

NextById ==
    \/ GetHotelById("p1")
    \/ FindOne("p1")
    \/ TssGet("p1")
    \/ SaveHotel("p1")
    \/ GetReturn("p1")

\* Sequential getHotelById calls of one caller.
SpecById == Init /\ [][NextById]_vars

\* searchHotels and getHotelById calls of one caller, in any order and
\* overlapping: the two operations that write the directory.
NextDirectory ==
    \/ Next
    \/ NextById

SpecDirectory == Init /\ [][NextDirectory]_vars

\* ---------------------------------------------- controller: getHotelsByIds

\* Whether Mongoose can cast the string to an ObjectId.
IsObjectId(id) == Len(id) > 1 /\ SubSeq(id, 1, 1) = <<"oid">>

\* Hotel.findById(id): the records with that _id, whatever their status.
findById(dir, id) == { d \in dir : OidOf(d.hotelId) = id }

Retrieved(hotels, requested) ==
    [ status |-> 200, success |-> TRUE, hotels |-> hotels,
      requested |-> requested, found |-> Len(hotels) ]

\* Faulty variant: the error of one id leaves the loop and reaches the outer catch.
OnLookupError_Abort(r) ==
    [r EXCEPT !.pc = "end", !.threw = r.threw \cup {r.i}, !.response = [status |-> 500, success |-> FALSE]]

\* catch (error) inside the loop: logged, the loop continues with the next id.
OnLookupError(r) ==
    [r EXCEPT !.i = r.i + 1, !.pc = "findById", !.threw = r.threw \cup {r.i}]

\* const { ids } = req.body; if (!Array.isArray(ids) || ids.length === 0)
\* return res.status(400)...
GetHotelsByIds(p) ==
    LET \* req.body.ids: missing, empty, and arrays of ObjectId strings of records the
        \* directory has or lacks, and of a string that is no ObjectId.
        IdsInputs ==
            { NoList, <<>>,
              <<OidOf(<<"3">>)>>,
              <<OidOf(<<"9">>), OidOf(<<"1">>)>>,
              <<<<"3">>, OidOf(<<"3">>), OidOf(<<"2">>)>> }
    IN
        /\ calls < MaxCalls
        /\ request[p].pc = "idle"
        /\ lookup[p].pc = "idle"
        /\ \E ids \in IdsInputs :
             request' = [request EXCEPT ![p] =
                IF ids = NoList \/ ids = <<>>
                THEN [IdleRequest EXCEPT !.pc = "end", !.ids = ids, 
                       !.response = [status |-> 400, success |-> FALSE]]
                ELSE [IdleRequest EXCEPT !.pc = "findById", !.ids = ids, !.i = 1,
                                         !.dirAtCall = directory]]
        /\ calls' = calls + 1
        /\ UNCHANGED <<now, cache, directory, strictQuery, proc, prev, lastStore, batch, fn,
                       lookup>>

\* let hotel = await Hotel.findById(id): a string that is no ObjectId makes
\* the query throw a CastError, and the query itself can fail; a record goes
\* to hotels; without one the service is asked.
FindById(p) ==
    LET r == request[p]
    IN  /\ r.pc = "findById"
        /\ r.i <= Len(r.ids)
        /\ LET id == r.ids[r.i]
               s  == [r EXCEPT !.looked = r.looked \cup {r.i}]
           IN  \/ request' = [request EXCEPT ![p] = OnLookupError(s)]
               \/ /\ IsObjectId(id)
                  /\ findById(directory, id) # {}
                  /\ \E d \in findById(directory, id) :
                        request' = [request EXCEPT ![p] =
                           [s EXCEPT !.hotels = Append(r.hotels, d), !.i = r.i + 1]]
               \/ /\ IsObjectId(id)
                  /\ findById(directory, id) = {}
                  /\ request' = [request EXCEPT ![p] = [s EXCEPT !.pc = "service"]]
        /\ UNCHANGED <<now, cache, directory, strictQuery, calls, proc, prev, lastStore,
                       batch, fn, lookup>>

\* hotel = await hotelService.getHotelDetails(id): the service object has no
\* method of that name, so the call throws a TypeError.
GetHotelDetails(p) ==
    LET r == request[p]
    IN  /\ r.pc = "service"
        /\ request' = [request EXCEPT ![p] =
              OnLookupError([r EXCEPT !.asked = r.asked \cup {r.i}])]
        /\ UNCHANGED <<now, cache, directory, strictQuery, calls, proc, prev, lastStore,
                       batch, fn, lookup>>

\* res.status(200).json({ ..., data: { hotels, requested: ids.length,
\* found: hotels.length } })
Respond(p) ==
    LET r == request[p]
    IN  /\ r.pc = "findById"
        /\ r.i > Len(r.ids)
        /\ request' = [request EXCEPT ![p] =
              [r EXCEPT !.pc = "end", !.response = Retrieved(r.hotels, Len(r.ids))]]
        /\ UNCHANGED <<now, cache, directory, strictQuery, calls, proc, prev, lastStore,
                       batch, fn, lookup>>

RequestEnd(p) ==
    /\ request[p].pc = "end"
    /\ request' = [request EXCEPT ![p] = IdleRequest]
    /\ UNCHANGED <<now, cache, directory, strictQuery, calls, proc, prev, lastStore,
                   batch, fn, lookup>>

\* getHotelById calls run only between requests.
LookupStep(p) ==
    /\ request[p].pc = "idle"
    /\ \/ GetHotelById(p)
       \/ FindOne(p)
       \/ TssGet(p)
       \/ SaveHotel(p)
       \/ GetReturn(p)

NextByIds ==
    \/ GetHotelsByIds("p1")
    \/ FindById("p1")
    \/ GetHotelDetails("p1")
    \/ Respond("p1")
    \/ RequestEnd("p1")
    \/ LookupStep("p1")

\* getHotelsByIds requests of one client, on the directory that getHotelById
\* calls fill in between.
SpecByIds == Init /\ [][NextByIds]_vars

NextVerify ==
    \/ VerifyBegin("p1")
    \/ VerifyNext("p1")
    \/ SearchStep("p1")
    \/ VerifyName("p1")
    \/ VerifyAlternatives("p1")
    \/ VerifyReturn("p1")
    \/ VerifyEnd("p1")
    \/ Tick

\* verifyRecommendedHotels calls of one caller.
SpecVerify == Init /\ [][NextVerify]_vars

\* ------------------------------------------- pure functions, evaluated

\* generateSearchKey applied to two parameter sets.
EvalSearchKey ==
    LET KeyLocations ==
            { <<"p", "a">>, <<"P", "A">>, <<"P", "a", " ">>, <<" ", "p", "a">>,
              <<"p", " ", "a">>, <<"P", " ", " ", "a">> }
        KeyFilters ==
            { NoFilters, [minRating |-> 3, maxPrice |-> NoNum, hotelChain |-> <<"H">>] }
        KeyParams ==
            [ location : KeyLocations, checkIn : {48, 50}, checkOut : {72, 96},
              rooms : {NoNum, 1, 2}, guests : {1}, additionalFilters : KeyFilters ]
    IN
        /\ fn = NoFn
        /\ \E a, b \in KeyParams :
              fn' = [ op |-> "generateSearchKey", a |-> a, b |-> b,
                      ka |-> generateSearchKey(a), kb |-> generateSearchKey(b) ]
        /\ UNCHANGED <<service, batch, lookup, request>>

\* The name match of searchHotelByName applied to a result list.
EvalMatchByName ==
    LET MatchNames == { <<"G", "P">>, <<"t", "G", "P">>, <<"g">>, <<"x">>, <<"g", "p">> }
        \* Result lists: the star rating tells hotels of the same name apart.
        MatchLists ==
            UNION { { [i \in 1..n |-> [name |-> names[i], starRating |-> i]] :
                        names \in [1..n -> MatchNames] } : n \in 0..MaxMatchLen }
    IN
        /\ fn = NoFn
        /\ \E hotels \in MatchLists, name \in MatchNames \cup {<<>>} :
              fn' = [ op |-> "searchHotelByName", hotels |-> hotels, name |-> name,
                      out |-> MatchByName(hotels, name) ]
        /\ UNCHANGED <<service, batch, lookup, request>>

\* getAlternativeHotels applied to a result list.
EvalAlternatives ==
    LET \* Search results for the alternatives: two hotels with the same rating and
        \* review score, one whose score is the same sum from other terms, one with
        \* neither rating nor review score, and one with the original's name.
        AltHotels ==
            { [name |-> <<"a">>, starRating |-> 4, reviewScore |-> 2, price |-> 90],
              [name |-> <<"b">>, starRating |-> 4, reviewScore |-> 2, price |-> 60],
              [name |-> <<"c">>, starRating |-> 1, reviewScore |-> 9, price |-> NoNum],
              [name |-> <<"d">>, starRating |-> NoNum, reviewScore |-> NoNum, price |-> 70],
              [name |-> <<"G", "p">>, starRating |-> 5, reviewScore |-> 9, price |-> 80] }
        \* Result lists; the id is the position in the list.
        AltLists ==
            UNION { { [i \in 1..n |-> hs[i] @@ [id |-> i]] : hs \in [1..n -> AltHotels] } :
                    n \in {0, 2, 3, MaxAltLen} }
    IN
        /\ fn = NoFn
        /\ \E hotels \in AltLists, starRating \in {NoNum, 4}, limit \in {NoNum, 2},
              priceRange \in {NoRange, [min |-> 60, max |-> 80]} :
              fn' = [ op |-> "getAlternativeHotels", hotels |-> hotels,
                      name |-> <<"g", "P">>, starRating |-> starRating,
                      priceRange |-> priceRange, limit |-> limit,
                      out |-> Alternatives(hotels, <<"g", "P">>, priceRange, starRating,
                                           LimitOrDefault(limit)) ]
        /\ UNCHANGED <<service, batch, lookup, request>>

\* Hotel.findAlternatives applied to a directory and one of its records.
EvalFindAlternatives ==
    LET \* Directory contents for findAlternatives: up to MaxTwins records alike in
        \* everything but their _id, and any of six records that each differ from
        \* them in one respect (rating, status, city, country, no rating).
        Twin(i) == HotelRecord(i, <<"P", "a">>, <<"F", "R">>, "active", 4, 8, 50, 60, 90)
        OtherRecords ==
            { HotelRecord(11, <<"P", "a">>, <<"F", "R">>, "active", 5, 9, 70, 80, 200),
              HotelRecord(12, <<"P", "a">>, <<"F", "R">>, "active", 2, 9, 40, NoNum, NoNum),
              HotelRecord(13, <<"P", "a">>, <<"F", "R">>, "inactive", 4, 8, 50, 60, 90),
              HotelRecord(14, <<"R", "o">>, <<"F", "R">>, "active", 4, 8, 50, 60, 90),
              HotelRecord(15, <<"P", "a">>, <<"I", "T">>, "active", 4, 8, 50, 60, 90),
              HotelRecord(16, <<"P", "a">>, <<"F", "R">>, "active", NoNum, NoNum, 0, 60, 90) }
        Directories ==
            { { Twin(i) : i \in 1..k } \cup others :
                k \in {1, 2, MaxTwins}, others \in SUBSET OtherRecords }
        Criteria ==
            [ limit : {NoNum, 0, 2}, priceRange : {NoRange, [min |-> 50, max |-> 100]} ]
    IN
        /\ fn = NoFn
        /\ \E dir \in Directories, criteria \in Criteria :
           \E originalHotel \in dir :
           \E out \in findAlternatives(dir, originalHotel, criteria) :
              fn' = [ op |-> "findAlternatives", dir |-> dir, originalHotel |-> originalHotel,
                      criteria |-> criteria, out |-> out ]
        /\ UNCHANGED <<service, batch, lookup, request>>

\* calculatePopularityScore applied to a hotel and to the hotel with one input
\* raised.
EvalPopularity ==
    LET \* Hotels for the popularity score: every star rating, review scores and
        \* counts at and between their limits (a count above the cap of 1000), and
        \* histories with no, some and nearly all entries verified.
        RatedHotels ==
            { Rated(s, r, c, vh[1], vh[2], f) :
                s \in 1..5, r \in {0, 4, 10}, c \in {0, 25, 590, 1000, 2000},
                vh \in {<<0, 0>>, <<1, 2>>, <<49, 50>>, <<1, 1>>}, f \in BOOLEAN }
        \* h with exactly one of star rating, review score, review count or success
        \* rate increased.
        Raised(h) ==
            { g \in RatedHotels :
                \/ /\ g.starRating > h.starRating
                   /\ g = [h EXCEPT !.starRating = g.starRating]
                \/ /\ g.reviewScore > h.reviewScore
                   /\ g = [h EXCEPT !.reviewScore = g.reviewScore]
                \/ /\ g.reviewCount > h.reviewCount
                   /\ g = [h EXCEPT !.reviewCount = g.reviewCount]
                \/ /\ h.history > 0 /\ g.history > 0
                   /\ g.verified * h.history > h.verified * g.history
                   /\ g = [h EXCEPT !.verified = g.verified, !.history = g.history] }
    IN
        /\ fn = NoFn
        /\ \E h \in RatedHotels : \E g \in Raised(h) \cup {h} :
              fn' = [ op |-> "calculatePopularityScore", hotel |-> h, raised |-> g,
                      score |-> calculatePopularityScore(h),
                      scoreRaised |-> calculatePopularityScore(g) ]
        /\ UNCHANGED <<service, batch, lookup, request>>

EvalFormat ==
    LET \* Inventory hotels whose pairs hold: only the first field, only the second,
        \* both, neither, and a first field that is 0, the empty string or the
        \* empty list.
        StrPairs  == { <<<<"1">>, NoStr>>, <<NoStr, <<"2">>>>, <<<<"1">>, <<"2">>>>,
                       <<<<>>, <<"2">>>>, <<NoStr, NoStr>> }
        NumPairs  == { <<4, NoNum>>, <<NoNum, 3>>, <<4, 3>>, <<0, 3>>, <<0, NoNum>>,
                       <<NoNum, NoNum>> }
        ListPairs == { <<<<"w">>, NoList>>, <<NoList, <<"p">>>>, <<<<"w">>, <<"p">>>>,
                       <<<<>>, <<"p">>>>, <<NoList, NoList>> }
        RawOf(s, n, l) ==
            [ id |-> s[1], hotelId |-> s[2], name |-> s[1], hotelName |-> s[2],
              address |-> NoStr, city |-> <<"p", "a">>,
              starRating |-> n[1], category |-> n[2], reviewScore |-> n[1], rating |-> n[2],
              reviewCount |-> n[1], numberOfReviews |-> n[2],
              priceTotal |-> n[1], totalPrice |-> n[2],
              amenities |-> l[1], facilities |-> l[2], images |-> l[1], photos |-> l[2] ]
        RawHotels == { RawOf(s, n, l) : s \in StrPairs, n \in NumPairs, l \in ListPairs }
    IN
        /\ fn = NoFn
        /\ \E h \in RawHotels :
              fn' = [ op |-> "formatHotelResults", hotels |-> <<h>>,
                      value |-> formatHotelResults(<<h>>),
                      details |-> formatHotelDetails(h) ]
        /\ UNCHANGED <<service, batch, lookup, request>>

\* The token of a response that carries none.
NoToken == [id |-> NoStr]

\* createErrorResponse(type, message, details)
createErrorResponse(status, type, message) ==
    [ status |-> status, type |-> type, message |-> message, token |-> NoToken ]

\* exports.login: the response to a request body. `fault` names the call
\* that throws, if any (User.findOne, jwt.sign).
login(users, body, fault) ==
    LET found == { u \in users : u.email = body.email }
    IN  \* if (!email || !password)
        IF body.email \in {NoStr, <<>>} \/ body.password \in {NoStr, <<>>}
        THEN createErrorResponse(400, "VALIDATION_ERROR", "Email and password are required")
        \* catch (err)
        ELSE IF fault = "findOne"
        THEN createErrorResponse(500, "DATABASE_ERROR", "Login failed due to server error")
        \* if (!user)
        ELSE IF found = {}
        THEN createErrorResponse(401, "AUTHENTICATION_ERROR", "Invalid email or password")
        ELSE IF fault = "sign"
        THEN createErrorResponse(500, "DATABASE_ERROR", "Login failed due to server error")
        \* jwt.sign({ id: user._id }, ...); res.status(200).json({...})
        ELSE [ status |-> 200, type |-> "success", message |-> "Login successful",
               token |-> [id |-> (CHOOSE u \in found : TRUE).id] ]

\* A login request against a collection of two accounts.
Login ==
    LET \* password: the password the account was created with, in whatever
        \* form the User model keeps it.
        Users  == { [id |-> <<"u", "1">>, email |-> <<"a">>, password |-> <<"k">>],
                    [id |-> <<"u", "2">>, email |-> <<"b">>, password |-> <<"m">>] }
        Emails == { NoStr, <<>>, <<"a">>, <<"b">>, <<"z">> }
        Passes == { NoStr, <<>>, <<"k">>, <<"m">>, <<"w">> }
    IN
        /\ fn = NoFn
        /\ \E e \in Emails, pw \in Passes, fault \in {"none", "findOne", "sign"} :
              LET body == [email |-> e, password |-> pw]
              IN  fn' = [ op |-> "login", users |-> Users, body |-> body, fault |-> fault,
                          res |-> login(Users, body, fault) ]
        /\ UNCHANGED <<service, batch, lookup, request>>

NextFn ==
    \/ Login
    \/ EvalFormat
    \/ EvalPopularity
    \/ EvalSearchKey
    \/ EvalMatchByName
    \/ EvalAlternatives
    \/ EvalFindAlternatives

\* Evaluations of the pure functions on their argument spaces.
SpecFn == Init /\ [][NextFn]_vars

\* ------------------------------------------------------------ properties

KeyOf(f) == generateSearchKey(CacheParams(f.req))

EntriesFor(key) == { d \in cache : d.searchKey = key }

\* Some record of the directory holds what the upsert of one of these hotels
\* with the id of hotel i wrote.
Upserted(fmt, i) ==
    \E d \in directory : \E j \in DOMAIN fmt :
        /\ fmt[j].id = fmt[i].id
        /\ [k \in DOMAIN HotelDoc(fmt[j]) |-> d[k]] = HotelDoc(fmt[j])

\* C1: a search that starts from an empty cache, whose inventory call answers
\* with a hotels list and whose writes go through, has called the inventory
\* client once, leaves one cache entry for its signature and a directory
\* record for every returned hotel; the next call with the same parameters,
\* made less than the TTL after that store, returns the cached
\* hotels tagged 'cache' without calling the inventory client.
C1_SearchThenCacheHit ==
    \A p \in Procs :
        LET f == proc[p] IN
        /\ (f.pc = "ret" /\ f.emptyAtCall /\ f.apiOk /\ f.faults = {} /\ f.upsertFailed = {})
              => /\ f.apiCalls = 1
                 /\ f.result = Ok(f.fmt, f.total, "api")
                 /\ Cardinality(EntriesFor(KeyOf(f))) = 1
                 /\ \A i \in DOMAIN f.fmt : Upserted(f.fmt, i)
        /\ (/\ f.pc = "ret" /\ f.faults = {}
            /\ prev # NoPrev /\ prev.stored /\ prev.req = f.req
            /\ now < prev.storedAt + CacheTtlHours)
              => /\ f.apiCalls = 0
                 /\ f.result.ok /\ f.result.source = "cache"
                 /\ \E s \in lastStore :
                       /\ s.key = KeyOf(f)
                       /\ f.result.hotels = CacheHotels(s.hotels)
                       /\ f.result.total = s.total

C1_Witness ==
    \E p \in Procs :
        /\ proc[p].pc = "ret" /\ proc[p].faults = {}
        /\ prev # NoPrev /\ prev.stored /\ prev.fromEmpty /\ prev.req = proc[p].req
        /\ proc[p].result.ok /\ proc[p].result.source = "cache"
        /\ proc[p].result.hotels # <<>>

\* C2: when the inventory call fails, the outcome is decided by the directory
\* query for the location: hotels found are returned tagged 'fallback', none
\* found (or a failed query) makes the call fail with the inventory-unavailable
\* error; an empty successful result is never returned.
C2_FallbackOrFail ==
    \A p \in Procs :
        LET f  == proc[p]
            hs == searchHotelsFromDatabase(directory, f.req.location, strictQuery)
        IN  (f.pc = "ret" /\ "api" \in f.faults)
              => /\ ("fallback" \notin f.faults /\ hs # <<>>)
                       => f.result = Ok(hs, Len(hs), "fallback")
                 /\ ("fallback" \in f.faults \/ hs = <<>>)
                       => f.result = Failed(InventoryUnavailable)
                 /\ ~(f.result.ok /\ f.result.hotels = <<>>)

C2_Witness ==
    \E p \in Procs :
        /\ proc[p].pc = "ret" /\ "api" \in proc[p].faults
        /\ proc[p].result.ok /\ proc[p].result.source = "fallback"

\* C3 (as claimed): an entry stored for a stay whose check-out lies before the
\* day of the store has status 'expired' and isExpired true, and no lookup
\* returns it.
C3_PastStayStoredExpired ==
    /\ \A s \in lastStore : \A d \in EntriesFor(s.key) :
          s.params.checkOut < StartOfDay(s.time)
             => d.status = "expired" /\ d.isExpired
    /\ \A p \in Procs :
          proc[p].pc = "hit" => ~(proc[p].found.searchParams.checkOut < StartOfDay(now))

\* C4: an entry returned by findValidCache is active, not flagged expired and
\* expires strictly after the time of the lookup.
C4_LookupOnlyValid ==
    \A p \in Procs :
        proc[p].pc = "hit"
          => /\ proc[p].found.status = "active"
             /\ proc[p].found.isExpired = FALSE
             /\ proc[p].found.expiresAt > now

\* A lookup has just missed although the entry of the signature is still
\* flagged valid: its expiresAt has passed.
C4_Witness ==
    \E p \in Procs :
        /\ proc[p].pc = "api"
        /\ \E d \in EntriesFor(KeyOf(proc[p])) :
              d.status = "active" /\ d.isExpired = FALSE /\ d.expiresAt <= now

\* C5: after any number of stores the cache holds exactly one entry per stored
\* signature, and it carries the results, the (schema-cast) search parameters
\* and the expiry of the latest store of that signature.
C5_OneEntryPerSignature ==
    \A s \in lastStore :
        /\ Cardinality(EntriesFor(s.key)) = 1
        /\ \A d \in EntriesFor(s.key) :
              /\ d.hotels = CacheHotels(s.hotels)
              /\ d.totalResults = s.total
              /\ d.searchParams = CastSearchParams(s.params)
              /\ d.expiresAt = s.time + CacheTtlHours

\* The same signature was stored twice, with different parameters and at
\* different times, and another signature once.
C5_Witness ==
    \E s, o \in lastStore :
        /\ s.n >= 2 /\ o.key # s.key
        /\ s.params.location = <<"P", "A">>
        /\ s.time > 48
        /\ \E d \in EntriesFor(s.key) : d.hitCount >= 2

\* C7 (as claimed): a failed cache write after a successful inventory call
\* changes nothing in the response: the inventory hotels, tagged 'api'.
C7_CacheWriteFailureSwallowed ==
    \A p \in Procs :
        LET f == proc[p] IN
        (f.pc = "ret" /\ f.apiOk /\ "store" \in f.faults)
           => f.result = Ok(f.fmt, f.total, "api")

\* C8: when upserts of returned hotels fail, the call still returns the whole
\* inventory result tagged 'api', and every hotel whose upsert did not fail
\* has its record in the directory.
C8_UpsertFailureIsolated ==
    \A p \in Procs :
        LET f == proc[p] IN
        (f.pc = "ret" /\ f.upsertFailed # {})
           => /\ f.result = Ok(f.fmt, f.total, "api")
              /\ \A i \in (DOMAIN f.fmt) \ f.upsertFailed : Upserted(f.fmt, i)

C8_Witness ==
    \E p \in Procs :
        /\ proc[p].pc = "ret"
        /\ proc[p].upsertFailed = {1}
        /\ Len(proc[p].fmt) = 2
        /\ proc[p].result.ok /\ proc[p].result.source = "api"

\* Locations that differ only in letter case and in whitespace: equal once
\* lower-cased, trimmed and with every run of whitespace taken as one.
SameLocation(x, y) ==
    ReplaceSpaceRuns(Trim(toLowerCase(x)), FALSE) = ReplaceSpaceRuns(Trim(toLowerCase(y)), FALSE)

\* C6 (as claimed): two parameter sets that differ only in the case or the
\* whitespace of the location have the same signature.
C6_KeyIgnoresCaseAndSpace ==
    fn.op = "generateSearchKey"
       => ((SameLocation(fn.a.location, fn.b.location)
             /\ [fn.a EXCEPT !.location = <<>>] = [fn.b EXCEPT !.location = <<>>])
           => fn.ka = fn.kb)

Outcomes(b) == b.verified \o b.alternatives \o b.unavailable

Occurrences(seq, h) == Cardinality({ i \in DOMAIN seq : seq[i] = h })

Originals(outcomes) == [i \in DOMAIN outcomes |-> outcomes[i].original]

\* C9: verifyRecommendedHotels never ends by throwing; the hotels are taken
\* one after the other, and when it returns every input hotel is in exactly
\* one of verified, alternatives, unavailable, whichever searches threw.
C9_BatchIsolatesErrors ==
    \A p \in Procs :
        LET b == batch[p] IN
        /\ b.pc \in {"idle", "loop", "name", "alt", "done"}
        /\ b.pc = "loop" => Len(Outcomes(b)) = b.i - 1
        /\ b.pc = "done"
             => /\ Len(b.verified) + Len(b.alternatives) + Len(b.unavailable) = Len(b.hotels)
                /\ \A k \in DOMAIN b.hotels :
                      Occurrences(Originals(Outcomes(b)), b.hotels[k])
                         = Occurrences(b.hotels, b.hotels[k])

\* A batch has returned in which the search of one hotel threw and another
\* hotel was classified.
C9_Witness ==
    \E p \in Procs :
        /\ batch[p].pc = "done"
        /\ batch[p].threw # {}
        /\ Len(batch[p].hotels) >= 2
        /\ Len(batch[p].verified) + Len(batch[p].alternatives) >= 1

MinOf(S) == CHOOSE i \in S : \A j \in S : i <= j

\* C10: the name match reports the first hotel whose name equals the query
\* ignoring case with confidence 1.0 (10 tenths) if there is one, else the
\* first hotel whose name contains the query or is contained in it with
\* confidence 0.8, else not found with confidence 0.
C10_ExactThenPartial ==
    fn.op = "searchHotelByName" =>
        LET hs == fn.hotels
            q  == toLowerCase(fn.name)
            E  == { i \in DOMAIN hs : toLowerCase(hs[i].name) = q }
            P  == { i \in DOMAIN hs : \/ includes(toLowerCase(hs[i].name), q)
                                      \/ includes(q, toLowerCase(hs[i].name)) }
        IN  /\ E # {} => fn.out = [found |-> TRUE, hotel |-> hs[MinOf(E)], confidence |-> 10]
            /\ (E = {} /\ P # {})
                  => fn.out = [found |-> TRUE, hotel |-> hs[MinOf(P)], confidence |-> 8]
            /\ (E = {} /\ P = {}) => fn.out = [found |-> FALSE, confidence |-> 0]

\* The query 'gp' against a list that holds 'tGP' before 'GP': the exact match
\* wins over the earlier partial one.
C10_Witness ==
    /\ fn.op = "searchHotelByName"
    /\ fn.name = <<"g", "p">>
    /\ Len(fn.hotels) = 2
    /\ fn.hotels[1].name = <<"t", "G", "P">>
    /\ fn.hotels[2].name = <<"G", "P">>
    /\ fn.out = [found |-> TRUE, hotel |-> fn.hotels[2], confidence |-> 10]

\* The results that qualify as alternatives of a hotel named name with star
\* rating r, when the rating may differ by twiceRange half stars.
AltCandidates(res, name, r, twiceRange) ==
    { i \in DOMAIN res :
        /\ toLowerCase(res[i].name) # toLowerCase(name)
        /\ res[i].starRating # NoNum
        /\ 2 * Abs(res[i].starRating - r) <= twiceRange }

\* The ranking scores of a result list, result by result.
Scores(res) == [i \in DOMAIN res |-> AltScore(res[i])]

\* Result i comes before result j in the ranking by the scores sc: the higher
\* score first, equal scores in the order of the results.
Before(sc, i, j) ==
    \/ sc[i] > sc[j]
    \/ sc[i] = sc[j] /\ i < j

\* The results at the indices C, ranked by the scores sc and cut to limit.
Ranked(res, sc, C, limit) ==
    [ k \in 1..Min(limit, Cardinality(C)) |->
        res[CHOOSE i \in C : Cardinality({ j \in C : Before(sc, j, i) }) + 1 = k] ]

\* The step in which getAlternativeHotels returns for caller p's hotel with a
\* star rating classifies it by the candidates within twiceRange half stars.
AlternativesClassified(p, twiceRange) ==
    LET b == batch[p] IN
    (b.pc = "alt" /\ batch'[p].pc = "loop" /\ batch'[p].threw = b.threw
       /\ b.hotels[b.i].starRating # NoNum)
      => LET h   == b.hotels[b.i]
             res == proc[p].result.hotels
             C   == AltCandidates(res, h.name, h.starRating, twiceRange)
         IN  /\ batch'[p].verified = b.verified
             /\ IF C # {}
                THEN /\ batch'[p].alternatives =
                           Append(b.alternatives,
                                  AlternativesOutcome(h, Ranked(res, Scores(res), C, VerifyAlternativesLimit)))
                     /\ batch'[p].unavailable = b.unavailable
                ELSE /\ batch'[p].unavailable = Append(b.unavailable, UnavailableOutcome(h))
                     /\ batch'[p].alternatives = b.alternatives

\* C11 (as claimed): the alternatives of an unmatched hotel with star rating r
\* are the differently named results within 1 star of r, ranked and cut to 3,
\* and the hotel is alternatives_found iff there is one, else unavailable.
C11_AlternativesWithinOneStar ==
    [][\A p \in Procs : AlternativesClassified(p, 2)]_vars

\* C11 (amended): the same with the results within half a star of r, which on
\* whole stars are those with the rating r itself.
C11_AlternativesWithinHalfStar ==
    [][\A p \in Procs : AlternativesClassified(p, 1)]_vars

\* A hotel with a star rating got alternatives, all of its own rating, and
\* another one none.
C11_Witness ==
    \E p \in Procs :
        /\ \E k \in DOMAIN batch[p].alternatives :
              LET o == batch[p].alternatives[k] IN
              /\ o.original.starRating # NoNum
              /\ \A a \in DOMAIN o.alternatives :
                    o.alternatives[a].starRating = o.original.starRating
        /\ \E k \in DOMAIN batch[p].unavailable :
              /\ batch[p].unavailable[k].status = "unavailable"
              /\ batch[p].unavailable[k].original.starRating # NoNum

\* The position in the result list of a returned hotel.
PosOf(h) == h.id

\* C12 (as claimed): the list getAlternativeHotels returns is in descending
\* order of 0.7 * stars + 0.3 * review score (missing values as 0), hotels of
\* equal score are in the order of the results, and the list has at most limit
\* (default 5) elements.
C12_RankedStableLimited ==
    fn.op = "getAlternativeHotels" =>
        /\ Len(fn.out) <= LimitOrDefault(fn.limit)
        /\ \A k, l \in DOMAIN fn.out :
              k < l => /\ ExactScore(fn.out[k]) >= ExactScore(fn.out[l])
                       /\ ExactScore(fn.out[k]) = ExactScore(fn.out[l])
                             => PosOf(fn.out[k]) < PosOf(fn.out[l])

\* C13: findAlternatives returns neither the original record, nor a hotel of
\* another city or country, nor one that is not active, nor one whose star
\* rating differs from the original's by more than 1, and returns at most
\* criteria.limit (default 5) hotels.
C13_FindAlternativesSafe ==
    fn.op = "findAlternatives" =>
        /\ \A d \in fn.out :
              /\ d \in fn.dir
              /\ d # fn.originalHotel
              /\ d.city = fn.originalHotel.city
              /\ d.country = fn.originalHotel.country
              /\ d.status = "active"
              /\ fn.originalHotel.starRating # NoNum
                    => /\ d.starRating # NoNum
                       /\ Abs(d.starRating - fn.originalHotel.starRating) <= 1
        /\ Cardinality(fn.out) <= (IF fn.criteria.limit \in {NoNum, 0} THEN 5 ELSE fn.criteria.limit)

\* The default limit cuts six qualifying records down to five, in a directory
\* that also holds an inactive record, one of another city and one rated two
\* stars lower.
C13_Witness ==
    /\ fn.op = "findAlternatives"
    /\ fn.criteria.limit = NoNum
    /\ Cardinality(fn.out) = 5
    /\ Cardinality({ d \in fn.dir : d.starRating = 4 /\ d.status = "active"
                                     /\ d.city = fn.originalHotel.city
                                     /\ d.country = fn.originalHotel.country
                                     /\ d # fn.originalHotel }) >= 5
    /\ \E d \in fn.dir : d.status = "inactive"
    /\ \E d \in fn.dir : d.city # fn.originalHotel.city
    /\ \E d \in fn.dir : d.starRating = 2
    /\ fn.originalHotel.starRating = 4

\* C15 (as claimed): for a hotel with 1..5 stars, a review score in 0..10 and
\* any review count, history and featured flag, the popularity score is the
\* integer in 0..100 nearest (halves upwards) to min(100, 25 * stars / 5 +
\* 30 * review / 10 + min(20, 20 * count / 1000) + 15 * successRate + 10 if
\* featured), and raising one of the four inputs does not lower it.
C15_PopularityFormula ==
    fn.op = "calculatePopularityScore" =>
        /\ fn.score \in 0..100
        /\ fn.score = RoundHalfUp(Min(PopularitySum(fn.hotel), 100 * PopularityDen(fn.hotel)),
                                  PopularityDen(fn.hotel))
        /\ fn.scoreRaised >= fn.score

\* The popularity score of a directory record by the formula; the records
\* here have no verification history and are not featured.
PopularityOf(d) ==
    calculatePopularityScore(Rated(d.starRating, d.reviewScore, d.reviewCount, 0, 0, FALSE))

\* C14 (as claimed): after any sequence of upserts every record of the
\* directory stores the popularity score of its current fields.
C14_PopularityRecomputed ==
    \A d \in directory : d.popularityScore = PopularityOf(d)

\* C16: a run of cleanupExpired leaves no entry that has expired by the
\* clock, has status 'expired' or is flagged expired, removes nothing else and
\* changes no entry that stays.
C16_CleanupExact ==
    [][CleanupExpired =>
          /\ \A d \in cache' :
                ~(d.expiresAt < now) /\ d.status # "expired" /\ d.isExpired = FALSE
          /\ \A d \in cache :
                (~(d.expiresAt < now) /\ d.status # "expired" /\ d.isExpired = FALSE)
                   => d \in cache'
          /\ cache' \subseteq cache]_vars

\* A cleanup has removed the old entry, whose expiresAt had passed, and the
\* entry of a stored signature, which the save hook had marked expired
\* (nothing else deletes entries), and kept a valid entry.
C16_Witness ==
    /\ EntriesFor(generateSearchKey(CacheParams(OldRequest))) = {}
    /\ \E s, o \in lastStore :
          /\ EntriesFor(s.key) = {}
          /\ \E d \in EntriesFor(o.key) :
                d.expiresAt >= now /\ d.status = "active" /\ d.isExpired = FALSE

\* C17: getHotelById returns null exactly when no active record has the id
\* and the inventory answers 404 or without a hotel; an active record is
\* returned without an inventory call; every other failure is an error.
C17_NoneOnlyWhenInNeitherStore ==
    \A p \in Procs :
        LET f == lookup[p]
            active == { d \in f.dirAtCall :
                          /\ d.status = "active"
                          /\ d.hotelId = f.hotelId \/ TssHotelIdOf(d) = f.hotelId }
            notFound == \/ f.answer.kind = "nohotel"
                        \/ f.answer.kind = "error" /\ f.answer.status = 404
            failure  == \/ f.dbFailed
                        \/ f.answer.kind = "error" /\ f.answer.status # 404
        IN  f.pc = "return" =>
              /\ f.result = Null <=> (~f.dbFailed /\ active = {} /\ notFound)
              /\ (~f.dbFailed /\ active # {}) =>
                    /\ f.apiCalls = 0
                    /\ \E d \in active : f.result = Value(formatHotelDetails(toObject(d)))
              /\ failure <=> f.result = Failed(RetrieveFailed)
              /\ f.answer.kind = "hotel" =>
                    f.result = Value(formatHotelDetails(f.answer.hotel))

\* Within one run: a lookup answered null after a 404, and the directory holds
\* a record written by a lookup the inventory answered.
C17_Witness ==
    /\ lookup["p1"].pc = "return"
    /\ lookup["p1"].result = Null
    /\ lookup["p1"].answer = GetError(404)
    /\ \E d \in directory : d.hotelId = <<"2">>

\* The first field of a pair when it is present and non-null, else the second.
FirstPresent(a, b, absent) == IF a # absent THEN a ELSE b

\* C18: formatHotelResults takes the first field of each pair whenever it is
\* present and non-null (0 and the empty string included), the second only
\* otherwise, and gives amenities and images the empty list when both
\* fields are absent.
C18_CoalescesFirstPresent ==
    fn.op = "formatHotelResults" =>
        \A i \in DOMAIN fn.hotels :
            LET h == fn.hotels[i]
                o == fn.value[i]
            IN  /\ o.id = FirstPresent(h.id, h.hotelId, NoStr)
                /\ o.name = FirstPresent(h.name, h.hotelName, NoStr)
                /\ o.starRating = FirstPresent(h.starRating, h.category, NoNum)
                /\ o.reviewScore = FirstPresent(h.reviewScore, h.rating, NoNum)
                /\ o.reviewCount = FirstPresent(h.reviewCount, h.numberOfReviews, NoNum)
                /\ o.price = FirstPresent(h.priceTotal, h.totalPrice, NoNum)
                /\ o.amenities =
                      FirstPresent(FirstPresent(h.amenities, h.facilities, NoList), <<>>, NoList)
                /\ o.images =
                      FirstPresent(FirstPresent(h.images, h.photos, NoList), <<>>, NoList)

\* C19: a getHotelsByIds request with a non-empty array looks every id up in
\* the directory, asks the service only for ids the directory has no record
\* of, and answers 200 with requested = number of ids and found = number of
\* hotels obtained, whatever lookups threw.
C19_BatchLookupIsolated ==
    \A p \in Procs :
        LET r == request[p]
            inDirectory == { i \in DOMAIN r.ids :
                               \E d \in r.dirAtCall : OidOf(d.hotelId) = r.ids[i] }
        IN  (r.pc = "end" /\ r.ids # NoList /\ r.ids # <<>>) =>
              /\ r.response.status = 200
              /\ r.response.requested = Len(r.ids)
              /\ r.response.found = Len(r.response.hotels)
              /\ r.response.found = Cardinality(DOMAIN r.ids \ (r.threw \cup r.asked))
              /\ r.response.found <= r.response.requested
              /\ r.looked = DOMAIN r.ids
              /\ r.asked \cap inDirectory = {}
              /\ \A k \in DOMAIN r.response.hotels :
                    \E i \in inDirectory : OidOf(r.response.hotels[k].hotelId) = r.ids[i]

\* A request whose first id threw answered 200 with a hotel found for a
\* later id.
C19_Witness ==
    /\ request["p1"].pc = "end"
    /\ 1 \in request["p1"].threw
    /\ request["p1"].response.status = 200
    /\ request["p1"].response.requested = 3
    /\ request["p1"].response.found = 1

\* A returned call failed, and the only error it met is the duplicate key of
\* a concurrent cache write.
FailedByConcurrentWrite(p) ==
    /\ proc[p].pc = "ret"
    /\ proc[p].result = Failed(InventoryUnavailable)
    /\ proc[p].faults = {"duplicate"}

\* The cache has one entry per signature at most, and every entry is what the
\* last writer of its signature stored: that writer's parameters, hotels,
\* total and expiry.
CacheConverged ==
    /\ \A d, e \in cache : d.searchKey = e.searchKey => d = e
    /\ \A d \in cache :
          \E s \in lastStore :
              /\ s.key = d.searchKey
              /\ d.searchParams = CastSearchParams(CacheParams(s.params))
              /\ d.hotels = CacheHotels(s.hotels)
              /\ d.totalResults = s.total
              /\ d.expiresAt = s.time + CacheTtlHours

\* The hotels the inventory's answers hold, formatted.
Formatted ==
    UNION { { formatHotel(r.hotels[i]) : i \in DOMAIN r.hotels } :
            r \in { x \in Responses : x.kind = "list" } }

\* The directory has one record per hotelId at most, and every record is an
\* earlier one or carries all the fields of one formatted hotel.
DirectoryConverged ==
    /\ \A d, e \in directory : d.hotelId = e.hotelId => d = e
    /\ \A d \in directory :
          \/ d \in InitialDirectory
          \/ \E h \in Formatted : [k \in DOMAIN HotelDoc(h) |-> d[k]] = HotelDoc(h)

\* C20: under every interleaving of concurrent searchHotels calls no call
\* fails because of the concurrent write, the cache has at most one entry per
\* signature and the directory at most one record per hotelId, and each
\* holds the complete data of one writer.
C20_ConcurrentWritersConverge ==
    /\ \A p \in Procs : ~FailedByConcurrentWrite(p)
    /\ CacheConverged
    /\ DirectoryConverged

\* The entry a store has just written expires CacheTtlHours later and is
\* flagged valid.
JustStored(p) ==
    proc[p].pc = "upsert" =>
        /\ EntriesFor(KeyOf(proc[p])) # {}
        /\ \A d \in EntriesFor(KeyOf(proc[p])) :
              /\ d.expiresAt = proc[p].storedAt + CacheTtlHours
              /\ d.status = "active"
              /\ d.isExpired = FALSE

\* The lookup for the signature of store s returns its entry before the
\* entry's expiry and nothing from then on.
ValidUntilExpiry(s) ==
    LET hits == findValidCache(cache, CacheParams(s.params), now)
    IN  /\ now < s.time + CacheTtlHours => (hits # {} /\ hits = EntriesFor(s.key))
        /\ now >= s.time + CacheTtlHours => hits = {}

\* C21: an entry searchHotels wrote at time t has expiresAt = t + 2 h and is
\* flagged valid, and, with no later store or purge, findValidCache returns
\* it at every time before t + 2 h and at no time from t + 2 h on.
C21_ValidForTtl ==
    /\ \A p \in Procs : JustStored(p)
    /\ \A s \in lastStore : ValidUntilExpiry(s)

\* C21, amended: the same for the entries of stays whose check-out date is
\* not before the current day.
C21_ValidForTtlUnlessPastStay ==
    /\ \A p \in Procs : proc[p].req.checkOut >= StartOfDay(now) => JustStored(p)
    /\ \A s \in lastStore :
          s.params.checkOut >= StartOfDay(now) => ValidUntilExpiry(s)

\* The entry of a current stay has been hit and has reached its expiry.
C21_Witness ==
    \E s \in lastStore :
        /\ s.params.checkOut >= StartOfDay(now)
        /\ now = s.time + CacheTtlHours
        /\ \E d \in EntriesFor(s.key) : d.hitCount > 1 /\ d.status = "active"

\* hitCount of the entry of a key in cache c, 0 when there is none.
HitsOf(c, key) ==
    IF \E d \in c : d.searchKey = key
    THEN (CHOOSE d \in c : d.searchKey = key).hitCount
    ELSE 0

\* C22: every store and every recorded hit of a signature adds one to its
\* entry's hitCount (the first store yields 1) and sets lastAccessed to the
\* time of the operation; no other step changes either, and the hit keeps
\* the entry.
C22_HitCountCountsStoresAndHits ==
    [][\A p \in Procs :
         LET key     == KeyOf(proc[p])
             counted == \/ (proc[p].pc = "hit" /\ proc'[p].pc = "ret")
                        \/ (proc[p].pc = "store" /\ proc'[p].pc = "upsert")
         IN  /\ counted =>
                   /\ HitsOf(cache', key) = HitsOf(cache, key) + 1
                   /\ \A d \in cache' : d.searchKey = key => d.lastAccessed = now
                   /\ \A d \in cache' : d.searchKey # key => d \in cache
             /\ (\A q \in Procs : /\ ~(proc[q].pc = "hit" /\ proc'[q].pc = "ret")
                                   /\ ~(proc[q].pc = "store" /\ proc'[q].pc = "upsert"))
                   => cache' = cache
    ]_vars

\* An entry that one store and two hits have brought to hitCount 3, last
\* accessed an hour after it was stored.
C22_Witness ==
    \E s \in lastStore : \E d \in EntriesFor(s.key) :
        d.hitCount = 3 /\ d.lastAccessed = s.time + 1

\* C23: a hotel whose verification threw is an element of the unavailable
\* list with status 'unavailable' and the error message as reason, and every
\* outcome has one of the statuses verified, alternatives_found, unavailable.
C23_ErrorsRecordedUnavailable ==
    \A p \in Procs :
        LET b == batch[p] IN
        /\ \A i \in b.threw :
              \E k \in DOMAIN b.unavailable :
                  /\ b.unavailable[k].original = b.hotels[i]
                  /\ b.unavailable[k].status = "unavailable"
                  /\ b.unavailable[k].reason # <<"No suitable alternatives found">>
        /\ \A k \in DOMAIN Outcomes(b) :
              Outcomes(b)[k].status \in {"verified", "alternatives_found", "unavailable"}

\* C24: under interleaved calls no increment of hitCount is lost: every saved
\* recordHit and every createOrUpdateCache leaves the stored hitCount of the
\* signature one above what it was before that write.
C24_NoIncrementLost ==
    [][\A p \in Procs :
         LET key   == KeyOf(proc[p])
             saved == \/ (proc[p].pc = "hit" /\ proc'[p].pc = "ret")
                      \/ (proc[p].pc = "write" /\ proc'[p].pc = "upsert")
         IN  saved => HitsOf(cache', key) = HitsOf(cache, key) + 1
    ]_vars

\* C25: a searchHotels call ends in one of two ways: a result tagged cache,
\* api or fallback, or the error 'Failed to search hotels via TSS API'; a
\* failed directory query in the fallback counts as an empty fallback.
C25_TwoKindsOfOutcome ==
    \A p \in Procs :
        LET f == proc[p] IN
        f.pc = "ret" =>
          /\ \/ f.result = Failed(InventoryUnavailable)
             \/ /\ f.result.ok
                /\ f.result.source \in {"cache", "api", "fallback"}
          /\ "fallback" \in f.faults => f.result = Failed(InventoryUnavailable)
          /\ (f.faults # {} /\ f.result.ok) => f.result.source = "fallback"

\* A call whose cache lookup threw and whose directory query failed too has
\* ended with the one error.
C25_Witness ==
    /\ proc["p1"].pc = "ret"
    /\ proc["p1"].faults = {"find", "fallback"}
    /\ proc["p1"].result = Failed(InventoryUnavailable)

\* C26: searchHotels calls the inventory client only after the cache lookup
\* has completed without error and found no valid entry; when the lookup or
\* the recording of the hit throws, the call goes to the directory fallback
\* without an inventory call and does not return the cached hotels.
C26_InventoryOnlyAfterMiss ==
    \A p \in Procs :
        LET f == proc[p] IN
        /\ f.apiCalls > 0 =>
              /\ "find" \notin f.faults
              /\ "hit" \notin f.faults
              /\ f.found = NoDoc
        /\ f.pc = "api" => (f.faults = {} /\ f.found = NoDoc)
        /\ (f.pc = "ret" /\ ("find" \in f.faults \/ "hit" \in f.faults)) =>
              /\ f.apiCalls = 0
              /\ \/ f.result = Failed(InventoryUnavailable)
                 \/ f.result = FallbackResult(
                        searchHotelsFromDatabase(directory, f.req.location, strictQuery))

\* A call found a valid entry, failed to record the hit and returned
\* directory hotels tagged fallback without an inventory call.
C26_Witness ==
    /\ proc["p1"].pc = "ret"
    /\ proc["p1"].found # NoDoc
    /\ proc["p1"].faults = {"hit"}
    /\ proc["p1"].apiCalls = 0
    /\ proc["p1"].result.ok
    /\ proc["p1"].result.source = "fallback"

\* C27: when the inventory answers without a hotels list the call returns
\* {hotels: [], total: 0, source: 'api'} and that step and the return leave
\* cache and directory as they were, with no fallback; a store is made only
\* by a call whose response carried a hotels list, and it writes an entry
\* even for an empty list.
C27_NoListLeavesStoresAlone ==
    [][\A p \in Procs :
         LET f == proc[p]
             g == proc'[p]
         IN  /\ (f.pc = "api" /\ g.pc = "ret") =>
                   /\ g.result = Ok(<<>>, 0, "api")
                   /\ ~g.apiOk /\ g.faults = {}
                   /\ cache' = cache /\ directory' = directory
             /\ (f.pc = "ret" /\ ~f.apiOk /\ f.apiCalls = 1 /\ f.faults = {}) =>
                   /\ f.result = Ok(<<>>, 0, "api")
                   /\ cache' = cache /\ directory' = directory
             /\ (f.pc = "store" /\ g.pc = "upsert") =>
                   /\ f.apiOk
                   /\ \E d \in cache' :
                         d.searchKey = KeyOf(f) /\ d.hotels = CacheHotels(f.fmt)
    ]_vars

\* A call is returning the empty api result after a response without a list,
\* and the cache holds the entry an earlier call of another signature wrote
\* for an empty hotels list.
C27_Witness ==
    /\ proc["p1"].pc = "ret"
    /\ proc["p1"].apiCalls = 1
    /\ ~proc["p1"].apiOk
    /\ proc["p1"].result = Ok(<<>>, 0, "api")
    /\ \E d \in cache : d.hotels = <<>> /\ d.searchKey # KeyOf(proc["p1"])

ActiveRecord(dir, id) == \E d \in dir : d.hotelId = id /\ d.status = "active"

\* No step deletes a record or takes a record out of the status active.
KeepsRecords ==
    \A d \in directory :
        \E e \in directory' :
            e.hotelId = d.hotelId /\ (d.status = "active" => e.status = "active")

BatchKey(b) ==
    generateSearchKey(CacheParams(WithDefaults(
        Req(b.ctx.location, b.ctx.checkIn, b.ctx.checkOut, NoNum, NoNum))))

\* A finished call over at least one hotel that began on an empty cache, whose
\* inventory calls all answered with a hotels list, and that ended less than
\* the time to live after it began.
BatchOnFreshEntry(b) ==
    /\ b.pc = "done"
    /\ Len(b.hotels) >= 1
    /\ b.emptyAtCall
    /\ ~b.apiFailed
    /\ now < b.startedAt + CacheTtlHours

AccountOf(f) == { u \in f.users : u.email = f.body.email }

PasswordMatches(f) == \E u \in AccountOf(f) : u.password = f.body.password

\* C30: login issues a token (200 'Login successful') only when a user with
\* the given email exists and the supplied password matches that user's
\* password; a request that passes validation and meets no server error but
\* names an unknown email or a wrong password is answered 401 'Invalid email
\* or password' without a token.
C30_LoginChecksPassword ==
    fn.op = "login" =>
        /\ (fn.res.status = 200 \/ fn.res.token # NoToken) => PasswordMatches(fn)
        /\ (/\ fn.res.status \notin {400, 500}
            /\ ~PasswordMatches(fn))
              => /\ fn.res.status = 401
                 /\ fn.res.message = "Invalid email or password"
                 /\ fn.res.token = NoToken

====
